---- MODULE Spec2Model ----
(***************************************************************************)
(* Request observability and metrics pipeline of the Horse Breed Service:  *)
(* MetricsCollector, RateLimitingMiddleware, EnhancedJSONFormatter's PII   *)
(* filter, the exception handlers, AsyncFileHandler's rotation, the        *)
(* correlation context variables and LoggingMiddleware.                    *)
(*                                                                         *)
(* Every component has its own variables, its own initial predicate and    *)
(* its own next-state relation; Spec is their interleaving, and the        *)
(* Spec<Component> specifications run one component while the others stay  *)
(* in their initial state.                                                 *)
(***************************************************************************)
EXTENDS Integers, Sequences, FiniteSets, TLC

VARIABLES
    mc,         \* MetricsCollector: the fields of the one collector object
    mw,         \* the callers of record_request: position, arguments, registers
    rl,         \* RateLimitingMiddleware: calls, period, clients
    now,        \* time.time(), in whole seconds
    rq,         \* the requests the rate limiter has seen: position and outcome
    pii_in,     \* the extra fields of the log record handed to format()
    pii_out,    \* log_entry["extra"] as format() built it
    eh,         \* the exception handlers: last exception, response, log record
    fh,         \* AsyncFileHandler: configuration and the executor's queue
    fs,         \* the log directory: the active file and its generations
    cv,         \* the context variables: one context per task
    tk,         \* the tasks handling requests: position, ids set, ids observed
    lm,         \* LoggingMiddleware: the requests passing through __call__
    ch,         \* the middleware chain: the request passing through it
    sm,         \* a MetricsCollector called sequentially, and its summary
    tp,         \* an endpoints dict in insertion order, and its top_endpoints
    sf,         \* SamplingFilter: rates, counters, the records filtered
    hc,         \* AsyncFileHandler: the executor's shutdown, stderr, the caller of emit
    hs          \* the monitoring endpoints: components, error_rate, the statuses

metricsVars == <<mc, mw>>
rateVars    == <<rl, now, rq>>
piiVars     == <<pii_in, pii_out>>
errVars     == <<eh>>
fileVars    == <<fh, fs>>
corrVars    == <<cv, tk>>
logVars     == <<lm>>
chainVars   == <<ch>>
summaryVars == <<sm, tp>>
sampVars    == <<sf>>
closeVars   == <<hc>>
healthVars  == <<hs>>
vars == <<mc, mw, rl, now, rq, pii_in, pii_out, eh, fh, fs, cv, tk, lm, ch, sm, tp, sf, hc, hs>>

None == "None"

RECURSIVE SumOver(_, _)
\* sum(f[x] for x in S)
SumOver(f, S) ==
    IF S = {} THEN 0
    ELSE LET x == CHOOSE y \in S : TRUE IN f[x] + SumOver(f, S \ {x})

Max(a, b) == IF a >= b THEN a ELSE b

Range(s) == {s[i] : i \in DOMAIN s}

(***************************************************************************)
(* MetricsCollector                                                        *)
(***************************************************************************)

\* number of callers of record_request; each makes one call
MaxCallers == 2

Callers == 1 .. MaxCallers
Methods == {"GET", "POST"}
Endpoints == {"/breeds"}
StatusCodes == {200, 404, 500}

\* endpoint_key = f"{method} {endpoint}"
EndpointKey(method, endpoint) == <<method, endpoint>>
EndpointKeys == {EndpointKey(m, e) : m \in Methods, e \in Endpoints}

\* the dict objects stored in self.endpoints; 0 is "no object"
BucketIds == 1 .. MaxCallers

NewBucket == [count |-> 0, errors |-> 0]

\* MetricsCollector.__init__ (the timing fields are left out: no operation
\* modelled here reads them)
MetricsCollectorInit ==
    [request_count |-> 0,
     error_count   |-> 0,
     warning_count |-> 0,
     status_codes  |-> [s \in StatusCodes |-> 0],
     endpoints     |-> [k \in EndpointKeys |-> 0],
     heap          |-> [b \in BucketIds |-> NewBucket],
     nobj          |-> 0]

IdleCaller == [pc |-> "idle", key |-> <<>>, status |-> 0, tmp |-> 0, obj |-> 0]

MetricsInit ==
    /\ mc = MetricsCollectorInit
    /\ mw = [c \in Callers |-> IdleCaller]

\* self.endpoints[endpoint_key] = {...} when the key is not in the dict
WithBucket(m, key) ==
    IF m.endpoints[key] # 0 THEN m
    ELSE [m EXCEPT !.nobj = @ + 1,
                   !.endpoints[key] = m.nobj + 1,
                   !.heap[m.nobj + 1] = NewBucket]

\* the error tallies with "if" in place of "elif": a server error is
\* tallied as a warning too
WithErrorsBoth(m, obj, status) ==
    IF status >= 400
    THEN LET m1 == [m EXCEPT !.heap[obj].errors = @ + 1,
                             !.warning_count = @ + 1]
         IN IF status >= 500
            THEN [m1 EXCEPT !.error_count = @ + 1]
            ELSE m1
    ELSE m

\* the tail of record_request: the error tallies
WithErrors(m, obj, status) ==
    IF status >= 400
    THEN LET m1 == [m EXCEPT !.heap[obj].errors = @ + 1]
         IN IF status >= 500
            THEN [m1 EXCEPT !.error_count = @ + 1]
            ELSE [m1 EXCEPT !.warning_count = @ + 1]
    ELSE m

\* MetricsCollector.record_request run without interruption (one caller, or
\* tasks of one event loop: the method has no await)
record_request(m, key, status) ==
    LET m1 == [m EXCEPT !.request_count = @ + 1,
                        !.status_codes[status] = @ + 1]
        m2 == WithBucket(m1, key)
        obj == m2.endpoints[key]
        m3 == [m2 EXCEPT !.heap[obj].count = @ + 1]
    IN WithErrors(m3, obj, status)

OthersUnchangedM == UNCHANGED <<rateVars, piiVars, errVars, fileVars, corrVars, logVars, chainVars, summaryVars, sampVars, closeVars, healthVars>>

\* a call made from a task of the event loop (or sequentially)
RecordRequestTask(c) ==
    /\ mw[c].pc = "idle"
    /\ \E method \in Methods, endpoint \in Endpoints, status \in StatusCodes :
          /\ mc' = record_request(mc, EndpointKey(method, endpoint), status)
          /\ mw' = [mw EXCEPT ![c] = [IdleCaller EXCEPT !.pc = "done",
                                        !.key = EndpointKey(method, endpoint),
                                        !.status = status]]
    /\ OthersUnchangedM

\* a call made from a thread: the interpreter may switch threads between
\* the load and the store of every read-modify-write of the method
RecordRequestThread(c) ==
    /\ mw[c].pc = "idle"
    /\ \E method \in Methods, endpoint \in Endpoints, status \in StatusCodes :
          mw' = [mw EXCEPT ![c] = [IdleCaller EXCEPT !.pc = "count_load",
                                        !.key = EndpointKey(method, endpoint),
                                        !.status = status]]
    /\ UNCHANGED mc
    /\ OthersUnchangedM

\* self.request_count += 1, the load
ThreadCountLoad(c) ==
    /\ mw[c].pc = "count_load"
    /\ mw' = [mw EXCEPT ![c].tmp = mc.request_count, ![c].pc = "count_store"]
    /\ UNCHANGED mc
    /\ OthersUnchangedM

\* self.request_count += 1, the store
ThreadCountStore(c) ==
    /\ mw[c].pc = "count_store"
    /\ mc' = [mc EXCEPT !.request_count = mw[c].tmp + 1]
    /\ mw' = [mw EXCEPT ![c].pc = "status_load"]
    /\ OthersUnchangedM

\* self.status_codes.get(status_code, 0)
ThreadStatusLoad(c) ==
    /\ mw[c].pc = "status_load"
    /\ mw' = [mw EXCEPT ![c].tmp = mc.status_codes[mw[c].status],
                        ![c].pc = "status_store"]
    /\ UNCHANGED mc
    /\ OthersUnchangedM

\* self.status_codes[status_code] = ... + 1
ThreadStatusStore(c) ==
    /\ mw[c].pc = "status_store"
    /\ mc' = [mc EXCEPT !.status_codes[mw[c].status] = mw[c].tmp + 1]
    /\ mw' = [mw EXCEPT ![c].pc = "bucket_test"]
    /\ OthersUnchangedM

\* if endpoint_key not in self.endpoints
ThreadBucketTest(c) ==
    /\ mw[c].pc = "bucket_test"
    /\ mw' = [mw EXCEPT ![c].pc = IF mc.endpoints[mw[c].key] = 0
                                  THEN "bucket_create" ELSE "bucket_get"]
    /\ UNCHANGED mc
    /\ OthersUnchangedM

\* self.endpoints[endpoint_key] = {'count': 0, ...}: a new dict replaces
\* whatever another thread stored under the key since the test
ThreadBucketCreate(c) ==
    /\ mw[c].pc = "bucket_create"
    /\ mc' = [mc EXCEPT !.nobj = @ + 1,
                        !.endpoints[mw[c].key] = mc.nobj + 1,
                        !.heap[mc.nobj + 1] = NewBucket]
    /\ mw' = [mw EXCEPT ![c].pc = "bucket_get"]
    /\ OthersUnchangedM

\* endpoint_data = self.endpoints[endpoint_key]
ThreadBucketGet(c) ==
    /\ mw[c].pc = "bucket_get"
    /\ mw' = [mw EXCEPT ![c].obj = mc.endpoints[mw[c].key], ![c].pc = "ep_load"]
    /\ UNCHANGED mc
    /\ OthersUnchangedM

\* endpoint_data['count'] += 1, the load
ThreadEndpointLoad(c) ==
    /\ mw[c].pc = "ep_load"
    /\ mw' = [mw EXCEPT ![c].tmp = mc.heap[mw[c].obj].count, ![c].pc = "ep_store"]
    /\ UNCHANGED mc
    /\ OthersUnchangedM

\* endpoint_data['count'] += 1, the store
ThreadEndpointStore(c) ==
    /\ mw[c].pc = "ep_store"
    /\ mc' = [mc EXCEPT !.heap[mw[c].obj].count = mw[c].tmp + 1]
    /\ mw' = [mw EXCEPT ![c].pc = IF mw[c].status >= 400 THEN "err_load" ELSE "done"]
    /\ OthersUnchangedM

\* if status_code >= 400: errors += 1, then error_count or warning_count:
\* the loads
ThreadErrorsLoad(c) ==
    /\ mw[c].pc = "err_load"
    /\ mw' = [mw EXCEPT ![c].tmp = IF mw[c].status >= 500 THEN mc.error_count
                                   ELSE mc.warning_count,
                        ![c].pc = "err_store"]
    /\ mc' = [mc EXCEPT !.heap[mw[c].obj].errors = @ + 1]
    /\ OthersUnchangedM

\* self.error_count += 1 / self.warning_count += 1, the store
ThreadErrorsStore(c) ==
    /\ mw[c].pc = "err_store"
    /\ mc' = IF mw[c].status >= 500
             THEN [mc EXCEPT !.error_count = mw[c].tmp + 1]
             ELSE [mc EXCEPT !.warning_count = mw[c].tmp + 1]
    /\ mw' = [mw EXCEPT ![c].pc = "done"]
    /\ OthersUnchangedM

NextMetrics ==
    \E c \in Callers :
        \/ RecordRequestTask(c)
        \/ RecordRequestThread(c)
        \/ ThreadCountLoad(c)
        \/ ThreadCountStore(c)
        \/ ThreadStatusLoad(c)
        \/ ThreadStatusStore(c)
        \/ ThreadBucketTest(c)
        \/ ThreadBucketCreate(c)
        \/ ThreadBucketGet(c)
        \/ ThreadEndpointLoad(c)
        \/ ThreadEndpointStore(c)
        \/ ThreadErrorsLoad(c)
        \/ ThreadErrorsStore(c)

\* get_summary()['total_requests']
total_requests == mc.request_count

\* sum(get_summary()['status_codes'].values())
StatusCodeSum == SumOver(mc.status_codes, StatusCodes)

\* the per-endpoint counts of the buckets self.endpoints holds
EndpointCount(k) == IF mc.endpoints[k] = 0 THEN 0 ELSE mc.heap[mc.endpoints[k]].count
EndpointCountSum == SumOver([k \in EndpointKeys |-> EndpointCount(k)], EndpointKeys)

CallsCompleted == Cardinality({c \in Callers : mw[c].pc = "done"})
AllCallsCompleted == \A c \in Callers : mw[c].pc \in {"idle", "done"}

\* C1: once all N record_request calls on one collector have completed,
\* whether they ran one after another or concurrently from tasks or threads,
\* total_requests is exactly N, and the status_code histogram and the
\* per-endpoint counts each sum to total_requests.
C1_NoLostUpdate ==
    AllCallsCompleted =>
        /\ total_requests = CallsCompleted
        /\ StatusCodeSum = total_requests
        /\ EndpointCountSum = total_requests

(***************************************************************************)
(* RateLimitingMiddleware                                                  *)
(***************************************************************************)

\* the largest calls and period the limiter is constructed with
MaxCalls == 2
MaxPeriod == 2
\* the clock stops at MaxTime; at most MaxRequests requests arrive
MaxTime == 3
MaxRequests == 4

Requests == 1 .. MaxRequests
\* request.client.host, or None when request.client is None
ClientHosts == {"10.0.0.1", None}
Paths == {"/health", "/api/v1/breeds"}
\* the paths dispatch passes through without counting
AllowListedPaths == {"/health", "/docs", "/redoc", "/openapi.json"}

\* RateLimitingMiddleware.__init__
RateLimiter(calls, period) ==
    [calls |-> calls, period |-> period, clients |-> <<>>]

NewRequest ==
    [pc |-> "new", client_ip |-> "", path |-> "", current_time |-> 0, seq |-> 0,
     limited |-> FALSE, status |-> 0, headers |-> <<>>, body |-> <<>>]

RateInit ==
    /\ \E calls \in 1 .. MaxCalls, period \in 1 .. MaxPeriod :
          rl = RateLimiter(calls, period)
    /\ now = 0
    /\ rq = [r \in Requests |-> NewRequest]

\* the other components run with the limiter untouched
RateRest ==
    /\ rl = RateLimiter(1, 1)
    /\ now = 0
    /\ rq = [r \in Requests |-> NewRequest]

\* [req_time for req_time in times if current_time - req_time < period]
RECURSIVE RecentRequests(_, _, _)
RecentRequests(times, current_time, period) ==
    IF times = <<>> THEN <<>>
    ELSE LET rest == RecentRequests(Tail(times), current_time, period)
         IN IF current_time - Head(times) < period
            THEN <<Head(times)>> \o rest
            ELSE rest

\* _cleanup_old_entries that drops a client as soon as one of its
\* timestamps is old
CleanupOldEntriesAll(clients, current_time, period) ==
    LET kept == {ip \in DOMAIN clients :
                    RecentRequests(clients[ip], current_time, period) = clients[ip]}
    IN [ip \in kept |-> clients[ip]]

\* RateLimitingMiddleware._cleanup_old_entries: the clients dict afterwards
CleanupOldEntries(clients, current_time, period) ==
    LET kept == {ip \in DOMAIN clients :
                    RecentRequests(clients[ip], current_time, period) # <<>>}
    IN [ip \in kept |-> RecentRequests(clients[ip], current_time, period)]

\* client_ip = request.client.host if request.client else "unknown"
ClientIp(host) == IF host = None THEN "unknown" ELSE host

\* the JSONResponse of the rate-limited branch
RateLimitResponse(request_id) ==
    [status  |-> 429,
     body    |-> [error |-> [request_id |-> request_id,
                             error_code |-> "RATE_LIMIT_EXCEEDED",
                             message    |-> "Too many requests",
                             details    |-> [limit |-> rl.calls,
                                             period |-> rl.period,
                                             retry_after |-> rl.period]]],
     headers |-> [h \in {"X-RateLimit-Limit", "X-RateLimit-Period",
                         "X-RateLimit-Remaining", "Retry-After"} |->
                    CASE h = "X-RateLimit-Limit" -> rl.calls
                      [] h = "X-RateLimit-Period" -> rl.period
                      [] h = "X-RateLimit-Remaining" -> 0
                      [] OTHER -> rl.period]]

\* a limiter that lets one request more through: len(recent_requests) > self.calls
OverLimitStrict(recent_requests, calls) == Len(recent_requests) > calls

\* the test of the window: len(recent_requests) >= self.calls
OverLimit(recent_requests, calls) == Len(recent_requests) >= calls

\* self.clients[client_ip] = recent_requests + [current_time] (or
\* [current_time] for a client not in the dict)
ClientsAfterAdmit(cleaned, client_ip, recent_requests, current_time) ==
    [ip \in DOMAIN cleaned \cup {client_ip} |->
        IF ip = client_ip
        THEN recent_requests \o <<current_time>>
        ELSE cleaned[ip]]

\* the timestamp recorded before the window is tested: a rejected request
\* is in the window too
ClientsAfterRejectRecorded(cleaned, client_ip, recent_requests, current_time) ==
    ClientsAfterAdmit(cleaned, client_ip, recent_requests, current_time)

\* self.clients when the 429 response is returned: the branch stores nothing
ClientsAfterReject(cleaned, client_ip, recent_requests, current_time) == cleaned

OthersUnchangedR == UNCHANGED <<metricsVars, piiVars, errVars, fileVars, corrVars, logVars, chainVars, summaryVars, sampVars, closeVars, healthVars>>

NextSeq == Cardinality({r \in Requests : rq[r].pc # "new"}) + 1

\* time passes
Tick ==
    /\ now < MaxTime
    /\ now' = now + 1
    /\ UNCHANGED <<rl, rq>>
    /\ OthersUnchangedR

\* dispatch, for a path of the allow list: return await call_next(request),
\* before the client address or the time is read
DispatchAllowListed(r) ==
    /\ rq[r].pc = "new"
    /\ \A q \in Requests : q < r => rq[q].pc # "new"
    /\ \E path \in Paths :
          /\ path \in AllowListedPaths
          /\ rq' = [rq EXCEPT ![r] = [NewRequest EXCEPT !.pc = "call_next",
                                         !.path = path,
                                         !.seq = NextSeq]]
    /\ UNCHANGED <<rl, now>>
    /\ OthersUnchangedR

\* dispatch up to the first await: clean up, test the window of the client,
\* then either answer 429 or record the timestamp and call downstream
DispatchLimited(r) ==
    /\ rq[r].pc = "new"
    /\ \A q \in Requests : q < r => rq[q].pc # "new"
    /\ \E host \in ClientHosts, path \in Paths, request_id \in {"state-id", "uuid4"} :
          LET client_ip == ClientIp(host)
              cleaned == CleanupOldEntries(rl.clients, now, rl.period)
              known == client_ip \in DOMAIN cleaned
              recent_requests ==
                  IF known THEN RecentRequests(cleaned[client_ip], now, rl.period)
                  ELSE <<>>
              req == [NewRequest EXCEPT !.client_ip = client_ip, !.path = path,
                                        !.current_time = now, !.seq = NextSeq,
                                        !.limited = TRUE]
          IN /\ path \notin AllowListedPaths
             /\ IF known /\ OverLimit(recent_requests, rl.calls)
                THEN /\ rl' = [rl EXCEPT !.clients =
                                 ClientsAfterReject(cleaned, client_ip, recent_requests, now)]
                     /\ rq' = [rq EXCEPT ![r] =
                                 [req EXCEPT !.pc = "done",
                                             !.status = 429,
                                             !.headers = RateLimitResponse(request_id).headers,
                                             !.body = RateLimitResponse(request_id).body]]
                ELSE /\ request_id = "state-id"
                     /\ rl' = [rl EXCEPT !.clients =
                                 ClientsAfterAdmit(cleaned, client_ip, recent_requests, now)]
                     /\ rq' = [rq EXCEPT ![r] = [req EXCEPT !.pc = "call_next"]]
    /\ UNCHANGED now
    /\ OthersUnchangedR

\* the rest of dispatch, once call_next has returned the response of the
\* application: the rate limiting headers
DispatchReturn(r) ==
    /\ rq[r].pc = "call_next"
    /\ \E status \in {200} :
          LET ip == rq[r].client_ip
              recent_requests ==
                  RecentRequests(rl.clients[ip], rq[r].current_time, rl.period)
              remaining == Max(0, rl.calls - Len(recent_requests))
          IN rq' = [rq EXCEPT ![r].pc = "done",
                              ![r].status = status,
                              ![r].headers =
                                  IF rq[r].limited /\ ip \in DOMAIN rl.clients
                                  THEN [h \in {"X-RateLimit-Limit", "X-RateLimit-Period",
                                               "X-RateLimit-Remaining"} |->
                                          CASE h = "X-RateLimit-Limit" -> rl.calls
                                            [] h = "X-RateLimit-Period" -> rl.period
                                            [] OTHER -> remaining]
                                  ELSE <<>>]
    /\ UNCHANGED <<rl, now>>
    /\ OthersUnchangedR

NextRate ==
    \/ Tick
    \/ \E r \in Requests :
          \/ DispatchAllowListed(r)
          \/ DispatchLimited(r)
          \/ DispatchReturn(r)

\* the request was passed to the application (it was not answered 429)
Admitted(r) == rq[r].pc # "new" /\ rq[r].limited /\ rq[r].status # 429
Rejected(r) == rq[r].pc = "done" /\ rq[r].limited /\ rq[r].status = 429

\* the requests of r's client admitted before r, less than period seconds
\* before r arrived
AdmittedBefore(r) ==
    {q \in Requests : /\ Admitted(q)
                      /\ rq[q].client_ip = rq[r].client_ip
                      /\ rq[q].seq < rq[r].seq
                      /\ rq[r].current_time - rq[q].current_time < rl.period}

\* the requests of one client admitted in the window [w, w + period)
AdmittedInWindow(ip, w) ==
    {q \in Requests : /\ Admitted(q)
                      /\ rq[q].client_ip = ip
                      /\ w <= rq[q].current_time
                      /\ rq[q].current_time < w + rl.period}

LastCleanup ==
    LET times == {rq[q].current_time : q \in {p \in Requests : rq[p].pc # "new" /\ rq[p].limited}}
    IN IF times = {} THEN 0 ELSE CHOOSE t \in times : \A u \in times : u <= t

\* the window of a client as the limiter holds it
WindowOf(ip) == IF ip \in DOMAIN rl.clients THEN rl.clients[ip] ELSE <<>>

\* the requests suspended in call_next
Suspended == {q \in Requests : rq[q].pc = "call_next" /\ rq[q].limited}

WindowLen(clients, ip) == IF ip \in DOMAIN clients THEN Len(clients[ip]) ELSE 0

\* C25: a request answered 429 by the limiter is never passed to call_next
\* and adds no timestamp to the window of its client: the window holds
\* timestamps of admitted requests only, so a rejected request does not
\* lengthen the time the client stays limited.
C25_RejectRecordsNothing ==
    /\ [](\A ip \in {ClientIp(host) : host \in ClientHosts} :
            /\ WindowLen(rl.clients, ip)
                  <= Cardinality({q \in Requests : Admitted(q) /\ rq[q].client_ip = ip})
            /\ \A i \in DOMAIN WindowOf(ip) :
                  \E q \in Requests : /\ Admitted(q)
                                      /\ rq[q].client_ip = ip
                                      /\ rq[q].current_time = WindowOf(ip)[i])
    /\ [][\A r \in Requests :
            (rq[r].status # 429 /\ rq'[r].status = 429) =>
                /\ rq[r].pc = "new"
                /\ rq'[r].pc = "done"
                /\ WindowLen(rl'.clients, rq'[r].client_ip)
                      <= WindowLen(rl.clients, rq'[r].client_ip)
                /\ \A i \in 1 .. WindowLen(rl'.clients, rq'[r].client_ip) :
                      rl'.clients[rq'[r].client_ip][i] # now
                         \/ \E j \in 1 .. WindowLen(rl.clients, rq'[r].client_ip) :
                               rl.clients[rq'[r].client_ip][j] = now]_vars

\* a client was answered 429 twice in a row and admitted again one period
\* after its last admitted request
C25_Witness ==
    \E a, b, c, d \in Requests :
        /\ Admitted(a) /\ Rejected(b) /\ Rejected(c) /\ Admitted(d)
        /\ rq[a].seq < rq[b].seq /\ rq[b].seq < rq[c].seq /\ rq[c].seq < rq[d].seq
        /\ rq[a].client_ip = rq[b].client_ip
        /\ rq[b].client_ip = rq[c].client_ip
        /\ rq[c].client_ip = rq[d].client_ip
        /\ rq[c].current_time > rq[a].current_time
        /\ rq[d].current_time = rq[a].current_time + rl.period
        /\ rl.calls = 1

(***************************************************************************)
(* EnhancedJSONFormatter: the PII filter of the extra fields               *)
(***************************************************************************)

\* how deep dicts and lists nest below a top-level extra field
MaxDepth == 2

\* EnhancedJSONFormatter.SENSITIVE_FIELDS, each word as its characters
SENSITIVE_FIELDS ==
    {<<"p", "a", "s", "s", "w", "o", "r", "d">>,
     <<"p", "a", "s", "s", "w", "d">>,
     <<"p", "w", "d">>,
     <<"s", "e", "c", "r", "e", "t">>,
     <<"t", "o", "k", "e", "n">>,
     <<"k", "e", "y">>,
     <<"a", "u", "t", "h">>,
     <<"a", "u", "t", "h", "o", "r", "i", "z", "a", "t", "i", "o", "n">>,
     <<"c", "o", "o", "k", "i", "e">>,
     <<"s", "e", "s", "s", "i", "o", "n">>,
     <<"c", "s", "r", "f">>,
     <<"a", "p", "i", "_", "k", "e", "y">>,
     <<"a", "c", "c", "e", "s", "s", "_", "t", "o", "k", "e", "n">>,
     <<"r", "e", "f", "r", "e", "s", "h", "_", "t", "o", "k", "e", "n">>,
     <<"b", "e", "a", "r", "e", "r">>,
     <<"s", "i", "g", "n", "a", "t", "u", "r", "e">>,
     <<"e", "m", "a", "i", "l">>,
     <<"p", "h", "o", "n", "e">>,
     <<"s", "s", "n">>,
     <<"c", "r", "e", "d", "i", "t", "_", "c", "a", "r", "d">>,
     <<"c", "c", "_", "n", "u", "m", "b", "e", "r">>,
     <<"a", "d", "d", "r", "e", "s", "s">>,
     <<"p", "e", "r", "s", "o", "n", "a", "l", "_", "i", "n", "f", "o">>,
     <<"p", "i", "i">>,
     <<"p", "r", "i", "v", "a", "t", "e">>}

\* str.lower(), one character
LowerChar(c) ==
    CASE c = "A" -> "a"
      [] c = "B" -> "b"
      [] c = "C" -> "c"
      [] c = "D" -> "d"
      [] c = "E" -> "e"
      [] c = "F" -> "f"
      [] c = "G" -> "g"
      [] c = "H" -> "h"
      [] c = "I" -> "i"
      [] c = "J" -> "j"
      [] c = "K" -> "k"
      [] c = "L" -> "l"
      [] c = "M" -> "m"
      [] c = "N" -> "n"
      [] c = "O" -> "o"
      [] c = "P" -> "p"
      [] c = "Q" -> "q"
      [] c = "R" -> "r"
      [] c = "S" -> "s"
      [] c = "T" -> "t"
      [] c = "U" -> "u"
      [] c = "V" -> "v"
      [] c = "W" -> "w"
      [] c = "X" -> "x"
      [] c = "Y" -> "y"
      [] c = "Z" -> "z"
      [] OTHER -> c

\* key.lower()
Lower(key) == [i \in 1 .. Len(key) |-> LowerChar(key[i])]

\* sensitive in key_lower, for strings
IsSubstring(word, text) ==
    \E i \in 0 .. (Len(text) - Len(word)) :
        \A j \in 1 .. Len(word) : text[i + j] = word[j]

\* any(sensitive in key_lower for sensitive in self.SENSITIVE_FIELDS)
IsSensitive(key) ==
    \E sensitive \in SENSITIVE_FIELDS : IsSubstring(sensitive, Lower(key))

\* the keys the extra fields use: two the deny list matches (one by
\* substring and in mixed case), two it does not
KeyApiKey == <<"A", "p", "i", "_", "K", "e", "y">>
KeyPassword == <<"p", "a", "s", "s", "w", "o", "r", "d">>
KeyName == <<"n", "a", "m", "e">>
NestedKeys == {KeyApiKey, KeyName}
ExtraKeys == {KeyPassword, KeyName}

\* a value is a string (its text and its length), a dict or a list
Str(text, length) == [t |-> "str", text |-> text, len |-> length, cut |-> FALSE]
Dict(d) == [t |-> "dict", d |-> d]
List(l) == [t |-> "list", l |-> l]

FILTERED == Str("[FILTERED]", 10)

\* the strings logged: a short one, and one longer than 100 characters
Strings == {Str("x", 1), Str("y", 101)}

\* dicts of at most one key and lists of at most one item, over values V
Containers(V) ==
    {Dict(<<>>), List(<<>>)}
    \cup {Dict([k \in {key} |-> v]) : key \in NestedKeys, v \in V}
    \cup {List(<<v>>) : v \in V}

RECURSIVE Values(_)
Values(depth) ==
    IF depth = 0 THEN Strings
    ELSE Strings \cup Containers(Values(depth - 1))

\* the extra={...} of a log call: one or two fields
Extras ==
    UNION {[D -> Values(MaxDepth - 1)] : D \in (SUBSET ExtraKeys) \ {{}}}

\* no record formatted yet
NotFormatted == [formatted |-> FALSE, extra |-> <<>>]

PiiInit ==
    /\ pii_in \in Extras
    /\ pii_out = NotFormatted

PiiRest ==
    /\ pii_in = [k \in {KeyName} |-> Str("x", 1)]
    /\ pii_out = NotFormatted

\* data[:100] + "...[TRUNCATED]"
Truncate(data) == [data EXCEPT !.len = 100 + 14, !.cut = TRUE]

RECURSIVE FilterData(_, _)
\* EnhancedJSONFormatter._filter_sensitive_data(data, field_name); the
\* field name of a list item is "", which no word of the deny list is in
FilterData(data, field_name) ==
    CASE data.t = "dict" ->
           Dict([key \in DOMAIN data.d |->
                   IF IsSensitive(key) THEN FILTERED
                   ELSE FilterData(data.d[key], key)])
      [] data.t = "list" ->
           List([i \in 1 .. Len(data.l) |-> FilterData(data.l[i], <<>>)])
      [] data.t = "str" /\ data.len > 100 ->
           Truncate(data)
      [] OTHER ->
           IF IsSensitive(field_name) THEN FILTERED ELSE data

\* EnhancedJSONFormatter.format, the loop over record.__dict__ that builds
\* log_entry["extra"]
FormatExtra(extra) ==
    [key \in DOMAIN extra |-> FilterData(extra[key], key)]

OthersUnchangedP == UNCHANGED <<metricsVars, rateVars, errVars, fileVars, corrVars, logVars, chainVars, summaryVars, sampVars, closeVars, healthVars>>

\* handler.format(record)
Format ==
    /\ ~pii_out.formatted
    /\ pii_out' = [formatted |-> TRUE, extra |-> FormatExtra(pii_in)]
    /\ UNCHANGED pii_in
    /\ OthersUnchangedP

\* the next record is logged
NextRecord ==
    /\ pii_out.formatted
    /\ pii_in' \in Extras
    /\ pii_out' = NotFormatted
    /\ OthersUnchangedP

NextPii == Format \/ NextRecord

\* the texts of the strings a value holds, at any depth
RECURSIVE TextsOf(_)
TextsOf(v) ==
    CASE v.t = "str" -> {v.text}
      [] v.t = "dict" -> UNION {TextsOf(v.d[k]) : k \in DOMAIN v.d}
      [] OTHER -> UNION {TextsOf(v.l[i]) : i \in 1 .. Len(v.l)}

\* every value stored under a sensitive key of v, at any depth, is the marker
RECURSIVE Redacted(_)
Redacted(v) ==
    CASE v.t = "dict" ->
           \A k \in DOMAIN v.d :
               IF IsSensitive(k) THEN v.d[k] = FILTERED ELSE Redacted(v.d[k])
      [] v.t = "list" -> \A i \in 1 .. Len(v.l) : Redacted(v.l[i])
      [] OTHER -> TRUE

\* C3: in the extra payload of every formatted record, the value under
\* every key whose lowercased name contains a sensitive substring is exactly
\* "[FILTERED]", at every depth and whatever the type of the original value
\* (also a dict, a list or a string of more than 100 characters at the top
\* level).
C3_RedactionTotal ==
    pii_out.formatted => Redacted(Dict(pii_out.extra))

(***************************************************************************)
(* The exception classes and the exception handlers                        *)
(***************************************************************************)

\* type(exc).__mro__, without object and BaseException
MRO(cls) ==
    CASE cls \in {"ValidationError", "NotFoundError", "ConflictError", "DatabaseError",
                  "ExternalServiceError", "AuthenticationError", "AuthorizationError",
                  "RateLimitError"} ->
            <<cls, "HorseBreedServiceException", "Exception">>
      [] cls = "HTTPException" -> <<cls, "StarletteHTTPException", "Exception">>
      [] cls \in {"IntegrityError", "OperationalError"} ->
            <<cls, "SQLAlchemyError", "Exception">>
      [] cls = "Exception" -> <<cls>>
      [] OTHER -> <<cls, "Exception">>

\* isinstance(exc, cls)
IsInstance(exc, cls) == \E i \in 1 .. Len(MRO(exc.cls)) : MRO(exc.cls)[i] = cls

NoDetails == <<>>

\* an exception object: its class, str(exc) and the attributes the
\* handlers read; an attribute that is None or "" is the empty text <<>>
\* and a retry_after of None is 0 (all of them are falsy)
Exc(cls, message, error_code, details, attrs) ==
    [cls |-> cls, message |-> message, error_code |-> error_code,
     details |-> details, attrs |-> attrs]

NoAttrs == [field |-> <<>>, resource |-> <<>>, identifier |-> <<>>,
            conflicting_field |-> <<>>, operation |-> <<>>, service |-> <<>>,
            retry_after |-> 0, status_code |-> 0, detail_is_dict |-> FALSE,
            detail |-> <<>>, detail_dict |-> <<>>]

\* HorseBreedServiceException.__init__
HorseBreedServiceException(message) ==
    Exc("HorseBreedServiceException", message, "GENERIC_ERROR", NoDetails, NoAttrs)

\* ValidationError.__init__
ValidationError(message, field) ==
    Exc("ValidationError", message, "VALIDATION_ERROR", NoDetails,
        [NoAttrs EXCEPT !.field = field])

\* NotFoundError.__init__
NotFoundError(resource, identifier) ==
    Exc("NotFoundError",
        resource \o <<" with identifier '">> \o identifier \o <<"' not found">>,
        "RESOURCE_NOT_FOUND", NoDetails,
        [NoAttrs EXCEPT !.resource = resource, !.identifier = identifier])

\* ConflictError.__init__
ConflictError(message, conflicting_field) ==
    Exc("ConflictError", message, "RESOURCE_CONFLICT", NoDetails,
        [NoAttrs EXCEPT !.conflicting_field = conflicting_field])

\* DatabaseError.__init__
DatabaseError(message, operation, details) ==
    Exc("DatabaseError", message, "DATABASE_ERROR", details,
        [NoAttrs EXCEPT !.operation = operation])

\* ExternalServiceError.__init__
ExternalServiceError(service, message) ==
    Exc("ExternalServiceError",
        <<"External service '">> \o service \o <<"' error: ">> \o message,
        "EXTERNAL_SERVICE_ERROR", NoDetails, [NoAttrs EXCEPT !.service = service])

\* AuthenticationError.__init__
AuthenticationError ==
    Exc("AuthenticationError", <<"Authentication failed">>, "AUTHENTICATION_ERROR",
        NoDetails, NoAttrs)

\* AuthorizationError.__init__
AuthorizationError ==
    Exc("AuthorizationError", <<"Insufficient permissions">>, "AUTHORIZATION_ERROR",
        NoDetails, NoAttrs)

\* RateLimitError.__init__
RateLimitError(retry_after) ==
    Exc("RateLimitError", <<"Rate limit exceeded">>, "RATE_LIMIT_EXCEEDED",
        NoDetails, [NoAttrs EXCEPT !.retry_after = retry_after])

\* the status codes of fastapi.status the code names
HTTP_400_BAD_REQUEST == 400
HTTP_401_UNAUTHORIZED == 401
HTTP_403_FORBIDDEN == 403
HTTP_404_NOT_FOUND == 404
HTTP_409_CONFLICT == 409
HTTP_422_UNPROCESSABLE_ENTITY == 422
HTTP_429_TOO_MANY_REQUESTS == 429
HTTP_500_INTERNAL_SERVER_ERROR == 500
HTTP_502_BAD_GATEWAY == 502

\* the key of a dict that has no such key: dict.get(key, default)
Get(dict, key, default) == IF key \in DOMAIN dict THEN dict[key] ELSE default

\* a mapping that answers 400 for every class the table does not list
map_exception_to_http_status_default_400(exception) ==
    LET exception_status_map ==
            [ValidationError      |-> HTTP_400_BAD_REQUEST,
             NotFoundError        |-> HTTP_404_NOT_FOUND,
             ConflictError        |-> HTTP_400_BAD_REQUEST,
             DatabaseError        |-> HTTP_500_INTERNAL_SERVER_ERROR,
             ExternalServiceError |-> HTTP_502_BAD_GATEWAY,
             AuthenticationError  |-> HTTP_401_UNAUTHORIZED,
             AuthorizationError   |-> HTTP_403_FORBIDDEN,
             RateLimitError       |-> HTTP_429_TOO_MANY_REQUESTS]
    IN Get(exception_status_map, exception.cls, HTTP_400_BAD_REQUEST)

\* map_exception_to_http_status: a lookup by the exact type
map_exception_to_http_status(exception) ==
    LET exception_status_map ==
            [ValidationError      |-> HTTP_400_BAD_REQUEST,
             NotFoundError        |-> HTTP_404_NOT_FOUND,
             ConflictError        |-> HTTP_409_CONFLICT,
             DatabaseError        |-> HTTP_500_INTERNAL_SERVER_ERROR,
             ExternalServiceError |-> HTTP_502_BAD_GATEWAY,
             AuthenticationError  |-> HTTP_401_UNAUTHORIZED,
             AuthorizationError   |-> HTTP_403_FORBIDDEN,
             RateLimitError       |-> HTTP_429_TOO_MANY_REQUESTS]
    IN Get(exception_status_map, exception.cls, HTTP_500_INTERNAL_SERVER_ERROR)

\* a dict with the items of both, those of b winning
Update(a, b) ==
    [k \in DOMAIN a \cup DOMAIN b |-> IF k \in DOMAIN b THEN b[k] ELSE a[k]]

\* create_http_exception: the HTTPException built from a custom exception
create_http_exception(exception, request_id) ==
    LET base == [error_code |-> exception.error_code,
                 message    |-> exception.message,
                 details    |-> exception.details]
        with_id == IF request_id # "" THEN Update(base, [request_id |-> request_id])
                   ELSE base
        a == exception.attrs
        specific ==
            CASE IsInstance(exception, "ValidationError") /\ a.field # <<>> ->
                    [field |-> a.field]
              [] IsInstance(exception, "NotFoundError") ->
                    [resource |-> a.resource, identifier |-> a.identifier]
              [] IsInstance(exception, "ConflictError") /\ a.conflicting_field # <<>> ->
                    [conflicting_field |-> a.conflicting_field]
              [] IsInstance(exception, "DatabaseError") ->
                    [operation |-> a.operation]
              [] IsInstance(exception, "ExternalServiceError") ->
                    [service |-> a.service]
              [] IsInstance(exception, "RateLimitError") /\ a.retry_after # 0 ->
                    [retry_after |-> a.retry_after]
              [] OTHER -> <<>>
    IN [status_code |-> map_exception_to_http_status(exception),
        detail      |-> Update(with_id, specific),
        headers     |-> IF exception.error_code # ""
                        THEN [h \in {"X-Error-Code"} |-> exception.error_code]
                        ELSE <<>>]

\* create_error_response
create_error_response(request_id, error_code, message, details) ==
    [error |-> [request_id |-> request_id,
                error_code |-> error_code,
                message    |-> message,
                details    |-> details,
                timestamp  |-> None]]

\* a request as the handlers see it: request.state.request_id is set by
\* RequestTrackingMiddleware, or absent
RequestStates == {"", "req-1"}

\* getattr(request.state, 'request_id', generate_request_id())
RequestIdOf(state_request_id) ==
    IF state_request_id # "" THEN state_request_id ELSE "uuid4"

JSONResponse(status_code, content, headers) ==
    [status_code |-> status_code, content |-> content, headers |-> headers]

LogRecord(level, msg, extra) == [level |-> level, msg |-> msg, extra |-> extra]

\* EXCEPTION_HANDLERS
EXCEPTION_HANDLERS ==
    [HorseBreedServiceException |-> "custom_exception_handler",
     HTTPException              |-> "http_exception_handler",
     StarletteHTTPException     |-> "http_exception_handler",
     RequestValidationError     |-> "validation_exception_handler",
     SQLAlchemyError            |-> "sqlalchemy_exception_handler",
     Exception                  |-> "generic_exception_handler"]

\* the handler the application runs for an exception: that of the first
\* class of the exception's MRO that has one
LookupHandler(cls) ==
    LET mro == MRO(cls)
        first == CHOOSE i \in 1 .. Len(mro) :
                    /\ mro[i] \in DOMAIN EXCEPTION_HANDLERS
                    /\ \A j \in 1 .. (i - 1) : mro[j] \notin DOMAIN EXCEPTION_HANDLERS
    IN EXCEPTION_HANDLERS[mro[first]]

\* custom_exception_handler: the response and the log record
custom_exception_handler(request_id, exc) ==
    LET http_exc == create_http_exception(exc, request_id)
    IN [resp |-> JSONResponse(http_exc.status_code, http_exc.detail, http_exc.headers),
        log  |-> LogRecord("ERROR", <<"Custom exception occurred: ", exc.cls>>,
                           [request_id    |-> request_id,
                            error_code    |-> exc.error_code,
                            error_message |-> exc.message,
                            details       |-> exc.details])]

\* http_exception_handler
http_exception_handler(request_id, exc) ==
    LET error_response ==
            IF exc.attrs.detail_is_dict
            THEN IF "request_id" \notin DOMAIN exc.attrs.detail_dict
                 THEN Update(exc.attrs.detail_dict, [request_id |-> request_id])
                 ELSE exc.attrs.detail_dict
            ELSE create_error_response(request_id, "HTTP_ERROR", exc.attrs.detail, <<>>)
    IN [resp |-> JSONResponse(exc.attrs.status_code, error_response, <<>>),
        log  |-> LogRecord("WARNING", <<"HTTP exception: ">>,
                           [request_id  |-> request_id,
                            status_code |-> exc.attrs.status_code])]

\* validation_exception_handler
validation_exception_handler(request_id, exc) ==
    LET validation_errors == exc.details
    IN [resp |-> JSONResponse(HTTP_422_UNPROCESSABLE_ENTITY,
                              create_error_response(
                                  request_id, "VALIDATION_ERROR",
                                  <<"Request validation failed">>,
                                  [validation_errors |-> validation_errors]),
                              <<>>),
        log  |-> LogRecord("WARNING", <<"Validation error occurred">>,
                           [request_id        |-> request_id,
                            validation_errors |-> validation_errors])]

\* sqlalchemy_exception_handler
sqlalchemy_exception_handler(request_id, exc) ==
    [resp |-> IF IsInstance(exc, "IntegrityError")
              THEN JSONResponse(HTTP_409_CONFLICT,
                                create_error_response(
                                    request_id, "INTEGRITY_ERROR",
                                    <<"Database constraint violation">>,
                                    [database_error |->
                                       <<"A record with this data already exists or violates constraints">>]),
                                <<>>)
              ELSE JSONResponse(HTTP_500_INTERNAL_SERVER_ERROR,
                                create_error_response(
                                    request_id, "DATABASE_ERROR",
                                    <<"An internal database error occurred">>,
                                    [database_error |-> <<"Please try again later">>]),
                                <<>>),
     log  |-> LogRecord("ERROR", <<"Database error occurred: ", exc.cls>>,
                        [request_id |-> request_id, error |-> exc.message])]

\* a handler that echoes str(exc) as the message of the response
generic_exception_handler_echo(request_id, exc) ==
    [resp |-> JSONResponse(HTTP_500_INTERNAL_SERVER_ERROR,
                           create_error_response(
                               request_id, "INTERNAL_ERROR", exc.message,
                               [error |-> <<"Please try again later or contact support">>]),
                           <<>>),
     log  |-> LogRecord("ERROR", <<"Unhandled exception occurred: ", exc.cls>>,
                        [request_id |-> request_id, error |-> exc.message])]

\* generic_exception_handler
generic_exception_handler(request_id, exc) ==
    [resp |-> JSONResponse(HTTP_500_INTERNAL_SERVER_ERROR,
                           create_error_response(
                               request_id, "INTERNAL_ERROR",
                               <<"An unexpected error occurred">>,
                               [error |-> <<"Please try again later or contact support">>]),
                           <<>>),
     log  |-> LogRecord("ERROR", <<"Unhandled exception occurred: ", exc.cls>>,
                        [request_id |-> request_id, error |-> exc.message])]

\* HorseBreedService: the except SQLAlchemyError clause of an operation,
\* after the rollback
WrapSQLAlchemyError(operation, e) ==
    CASE operation = "create_breed" ->
            DatabaseError(<<"Failed to create horse breed">>, <<operation>>,
                          [breed_name |-> <<"Arabian">>, error |-> e.message])
      [] operation = "update_breed" ->
            DatabaseError(<<"Failed to update horse breed with ID ", "7">>, <<operation>>,
                          [breed_id |-> <<"7">>, error |-> e.message])
      [] operation = "delete_breed" ->
            DatabaseError(<<"Failed to delete horse breed with ID ", "7">>, <<operation>>,
                          [breed_id |-> <<"7">>, error |-> e.message])
      [] OTHER ->
            DatabaseError(<<"Failed to retrieve horse breed with ID ", "7">>, <<operation>>,
                          [breed_id |-> <<"7">>, error |-> e.message])

ServiceOperations == {"create_breed", "update_breed", "delete_breed", "get_breed_by_id"}

\* the exceptions raised while a request is handled
DomainExceptions ==
    {HorseBreedServiceException(<<"failure">>),
     NotFoundError(<<"Horse breed">>, <<"7">>),
     ExternalServiceError(<<"registry">>, <<"timeout">>),
     AuthenticationError, AuthorizationError}
    \cup {ValidationError(<<"bad input">>, f) : f \in {<<>>, <<"name">>}}
    \cup {ConflictError(<<"Horse breed with name '", "Arabian", "' already exists">>, f) :
            f \in {<<>>, <<"name">>}}
    \cup {RateLimitError(r) : r \in {0, 30}}

HttpExceptions ==
    {Exc(cls, <<>>, "", NoDetails,
         [NoAttrs EXCEPT !.status_code = HTTP_404_NOT_FOUND,
                         !.detail = <<"Horse breed not found">>]) :
        cls \in {"HTTPException", "StarletteHTTPException"}}
    \cup {Exc("HTTPException", <<>>, "", NoDetails,
              [NoAttrs EXCEPT !.status_code = HTTP_404_NOT_FOUND,
                              !.detail_is_dict = TRUE,
                              !.detail_dict =
                                  create_http_exception(
                                      NotFoundError(<<"Horse breed">>, <<"7">>), rid).detail]) :
            rid \in {"", "req-0"}}

RequestValidationErrors ==
    {Exc("RequestValidationError", <<"1 validation error">>, "",
         [field |-> <<"body.name">>, message |-> <<"field required">>], NoAttrs)}

\* the texts of the exceptions the database driver raises
DbTexts == {<<"connection to postgresql://admin:pw@db failed">>,
            <<"UNIQUE constraint failed: horse_breeds.name">>}
SQLAlchemyErrors ==
    {Exc(cls, text, "", NoDetails, NoAttrs) :
        cls \in {"SQLAlchemyError", "OperationalError", "IntegrityError"},
        text \in DbTexts}

\* the texts of the exceptions no handler classifies
GenericTexts == {<<"division by zero">>, <<"Database password: secret123">>}
UnclassifiedExceptions ==
    {Exc(cls, text, "", NoDetails, NoAttrs) :
        cls \in {"ZeroDivisionError", "ValueError"}, text \in GenericTexts}

NoExc == Exc("", <<>>, "", NoDetails, NoAttrs)
NoResponse == JSONResponse(0, <<>>, <<>>)
NoLog == LogRecord("", <<>>, <<>>)

\* nothing handled yet
ErrInit ==
    eh = [handler |-> "", exc |-> NoExc, db_text |-> <<>>,
          resp |-> NoResponse, log |-> NoLog,
          prev_handler |-> "", prev_exc |-> NoExc, prev_resp |-> NoResponse]

OthersUnchangedE == UNCHANGED <<metricsVars, rateVars, piiVars, fileVars, corrVars, logVars, chainVars, summaryVars, sampVars, closeVars, healthVars>>

\* the state after a handler has answered a request
Handled(handler, exc, db_text, out) ==
    [handler |-> handler, exc |-> exc, db_text |-> db_text,
     resp |-> out.resp, log |-> out.log,
     prev_handler |-> eh.handler, prev_exc |-> eh.exc, prev_resp |-> eh.resp]

\* a request ends in a domain exception
HandleCustomException ==
    /\ \E state_id \in RequestStates, exc \in DomainExceptions :
          /\ LookupHandler(exc.cls) = "custom_exception_handler"
          /\ eh' = Handled("custom_exception_handler", exc, <<>>,
                           custom_exception_handler(RequestIdOf(state_id), exc))
    /\ OthersUnchangedE

\* a request ends in an HTTPException
HandleHttpException ==
    /\ \E state_id \in RequestStates, exc \in HttpExceptions :
          /\ LookupHandler(exc.cls) = "http_exception_handler"
          /\ eh' = Handled("http_exception_handler", exc, <<>>,
                           http_exception_handler(RequestIdOf(state_id), exc))
    /\ OthersUnchangedE

\* the request does not pass the validation of its schema
HandleValidationError ==
    /\ \E state_id \in RequestStates, exc \in RequestValidationErrors :
          /\ LookupHandler(exc.cls) = "validation_exception_handler"
          /\ eh' = Handled("validation_exception_handler", exc, <<>>,
                           validation_exception_handler(RequestIdOf(state_id), exc))
    /\ OthersUnchangedE

\* an SQLAlchemyError leaves the route (raised outside the service's try)
HandleSQLAlchemyError ==
    /\ \E state_id \in RequestStates, exc \in SQLAlchemyErrors :
          /\ LookupHandler(exc.cls) = "sqlalchemy_exception_handler"
          /\ eh' = Handled("sqlalchemy_exception_handler", exc, exc.message,
                           sqlalchemy_exception_handler(RequestIdOf(state_id), exc))
    /\ OthersUnchangedE

\* an operation of HorseBreedService hits an SQLAlchemyError: it rolls
\* back and raises DatabaseError, which custom_exception_handler answers
HandleServiceDatabaseError ==
    /\ \E state_id \in RequestStates, e \in SQLAlchemyErrors, op \in ServiceOperations :
          LET exc == WrapSQLAlchemyError(op, e)
          IN /\ LookupHandler(exc.cls) = "custom_exception_handler"
             /\ eh' = Handled("custom_exception_handler", exc, e.message,
                              custom_exception_handler(RequestIdOf(state_id), exc))
    /\ OthersUnchangedE

\* a request ends in an exception no other handler takes
HandleGenericException ==
    /\ \E state_id \in RequestStates, exc \in UnclassifiedExceptions :
          /\ LookupHandler(exc.cls) = "generic_exception_handler"
          /\ eh' = Handled("generic_exception_handler", exc, <<>>,
                           generic_exception_handler(RequestIdOf(state_id), exc))
    /\ OthersUnchangedE

NextErr ==
    \/ HandleCustomException
    \/ HandleHttpException
    \/ HandleValidationError
    \/ HandleSQLAlchemyError
    \/ HandleServiceDatabaseError
    \/ HandleGenericException

\* the error envelope of a response body: body["error"] where there is one
Envelope(content) == IF "error" \in DOMAIN content THEN content.error ELSE content

\* the fixed closed set of taxonomy codes
TaxonomyCodes ==
    {"VALIDATION_ERROR", "RESOURCE_NOT_FOUND", "RESOURCE_CONFLICT", "DATABASE_ERROR",
     "EXTERNAL_SERVICE_ERROR", "AUTHENTICATION_ERROR", "AUTHORIZATION_ERROR",
     "RATE_LIMIT_EXCEEDED", "INTEGRITY_ERROR", "INTERNAL_ERROR"}

\* C4: the body of every error response holds a non-empty request_id and an
\* error_code of the closed taxonomy set, whichever handler built it and
\* whatever exception it was given.
C4_EnvelopeClosedSet ==
    eh.handler # "" =>
        LET env == Envelope(eh.resp.content)
        IN /\ "request_id" \in DOMAIN env
           /\ env.request_id # ""
           /\ "error_code" \in DOMAIN env
           /\ env.error_code \in TaxonomyCodes

\* the status of the taxonomy table for a domain exception class
TableStatus(cls) ==
    CASE cls = "ValidationError" -> 400
      [] cls = "NotFoundError" -> 404
      [] cls = "ConflictError" -> 409
      [] cls = "DatabaseError" -> 500
      [] cls = "ExternalServiceError" -> 502
      [] cls = "AuthenticationError" -> 401
      [] cls = "AuthorizationError" -> 403
      [] cls = "RateLimitError" -> 429
      [] OTHER -> 500

PiecesOf(text) == {text[i] : i \in 1 .. Len(text)}
DictPieces(d) == UNION {PiecesOf(d[k]) : k \in DOMAIN d}

\* the texts a client reads in the message and the details of a body
BodyPieces(content) ==
    PiecesOf(Envelope(content).message) \cup DictPieces(Envelope(content).details)

\* a body with its request id blanked
WithoutRequestId(content) == [Envelope(content) EXCEPT !.request_id = ""]

C9_NoDatabaseTextInBody ==
    eh.db_text # <<>> =>
        PiecesOf(eh.db_text) \cap BodyPieces(eh.resp.content) = {}

\* where a body holds the four fields of the envelope: at the top of the
\* JSON object, under "error", or nowhere
EnvelopeFields == {"request_id", "error_code", "message", "details"}
Position(content) ==
    IF EnvelopeFields \subseteq DOMAIN content THEN "top"
    ELSE IF "error" \in DOMAIN content
    THEN IF EnvelopeFields \subseteq DOMAIN content.error THEN "error" ELSE "none"
    ELSE "none"

\* C15: the bodies of all handlers have one shape: request_id, error_code,
\* message and details are at the same position of the body whichever
\* handler built it, for any two failures.
C15_OneBodyShape ==
    (eh.handler # "" /\ eh.prev_handler # "") =>
        /\ Position(eh.resp.content) # "none"
        /\ Position(eh.resp.content) = Position(eh.prev_resp.content)

(***************************************************************************)
(* AsyncFileHandler: the executor's queue, the active file, its generations *)
(***************************************************************************)

\* the largest backupCount and maxBytes a handler is constructed with, the
\* number of records emitted and the largest size of a formatted record
MaxBackupCount == 2
MaxFileBytes == 2
MaxMessages == 5
MaxMessageBytes == 2

\* the generations a handler can name: filename.with_suffix(f".{i}")
Generations == 0 .. (MaxBackupCount + 1)

NoFile == [exists |-> FALSE, content |-> <<>>]
File(content) == [exists |-> TRUE, content |-> content]

\* AsyncFileHandler.__init__
AsyncFileHandler(maxBytes, backupCount) ==
    [maxBytes |-> maxBytes, backupCount |-> backupCount, queue |-> <<>>, emitted |-> 0]

\* the log directory before the first write; rotations counts the calls of
\* _rotate_logs, written[m] is that count when message m was written, and
\* pre is the directory as the last rotation found it
EmptyDirectory ==
    [active |-> NoFile,
     gen |-> [i \in Generations |-> NoFile],
     rotations |-> 0,
     written |-> <<>>,
     pre |-> [active |-> NoFile, gen |-> [i \in Generations |-> NoFile]]]

FileInit ==
    /\ \E maxBytes \in 1 .. MaxFileBytes, backupCount \in 0 .. MaxBackupCount :
          fh = AsyncFileHandler(maxBytes, backupCount)
    /\ fs = EmptyDirectory

FileRest ==
    /\ fh = AsyncFileHandler(1, 1)
    /\ fs = EmptyDirectory

\* self.filename.stat().st_size
RECURSIVE StSize(_)
StSize(content) ==
    IF content = <<>> THEN 0 ELSE Head(content).size + StSize(Tail(content))

RECURSIVE ShiftBackups(_, _)
\* the loop of _rotate_logs, from generation i down to 1:
\* old_backup.rename(new_backup) where old_backup exists
ShiftBackups(gen, i) ==
    IF i < 1 THEN gen
    ELSE ShiftBackups(IF gen[i].exists
                      THEN [gen EXCEPT ![i + 1] = gen[i], ![i] = NoFile]
                      ELSE gen,
                      i - 1)

\* AsyncFileHandler._rotate_logs: the directory afterwards (rename replaces
\* an existing target)
rotate_logs(dir, backupCount) ==
    LET unlinked == IF dir.gen[backupCount].exists
                    THEN [dir.gen EXCEPT ![backupCount] = NoFile]
                    ELSE dir.gen
        shifted == ShiftBackups(unlinked, backupCount - 1)
    IN IF dir.active.exists
       THEN [dir EXCEPT !.gen = [shifted EXCEPT ![1] = dir.active],
                        !.active = NoFile]
       ELSE [dir EXCEPT !.gen = shifted]

\* AsyncFileHandler._write_log: the directory afterwards
write_log(dir, message, maxBytes, backupCount) ==
    LET rotate == dir.active.exists /\ StSize(dir.active.content) > maxBytes
        d1 == IF rotate
              THEN [rotate_logs(dir, backupCount) EXCEPT
                       !.rotations = @ + 1,
                       !.pre = [active |-> dir.active, gen |-> dir.gen]]
              ELSE dir
    IN [d1 EXCEPT !.active = File(d1.active.content \o <<message>>),
                  !.written = Append(@, d1.rotations)]

OthersUnchangedF == UNCHANGED <<metricsVars, rateVars, piiVars, errVars, corrVars, logVars, chainVars, summaryVars, sampVars, closeVars, healthVars>>

\* AsyncFileHandler.emit: format the record, submit the write to the executor
Emit ==
    /\ fh.emitted < MaxMessages
    /\ \E size \in 1 .. MaxMessageBytes :
          fh' = [fh EXCEPT !.emitted = @ + 1,
                           !.queue = Append(@, [id |-> fh.emitted + 1, size |-> size])]
    /\ UNCHANGED fs
    /\ OthersUnchangedF

\* the one worker thread of the executor runs the next _write_log
WriteLog ==
    /\ fh.queue # <<>>
    /\ fs' = write_log(fs, Head(fh.queue), fh.maxBytes, fh.backupCount)
    /\ fh' = [fh EXCEPT !.queue = Tail(@)]
    /\ OthersUnchangedF

NextFile == Emit \/ WriteLog

\* the backup generations on disk
BackupsOnDisk == {i \in Generations : fs.gen[i].exists}

\* the ids of the messages a file holds
IdsIn(file) == {file.content[i].id : i \in 1 .. Len(file.content)}
IdsOnDisk == IdsIn(fs.active) \cup UNION {IdsIn(fs.gen[i]) : i \in Generations}

\* the last write rotated: it found the active file larger than maxBytes
LastWriteRotated ==
    /\ fs.rotations > 0
    /\ Len(fs.active.content) = 1
    /\ fs.written[Len(fs.written)] = fs.rotations
    /\ Len(fs.written) > 1
    /\ fs.written[Len(fs.written) - 1] < fs.rotations

\* C6: a write that finds the active file larger than maxBytes turns the
\* active file into generation 1, moves every generation i to i + 1 and
\* puts the message into a fresh active file; a message written backupCount
\* + 1 rotations ago is no longer on disk; and at most backupCount backup
\* generations exist in every state, for every backupCount >= 0.
C6_Rotation ==
    /\ Cardinality(BackupsOnDisk) <= fh.backupCount
    /\ LastWriteRotated =>
          /\ fs.gen[1] = fs.pre.active
          /\ \A i \in 1 .. (fh.backupCount - 1) :
                fs.pre.gen[i].exists => fs.gen[i + 1] = fs.pre.gen[i]
    /\ \A m \in 1 .. Len(fs.written) :
          fs.rotations - fs.written[m] >= fh.backupCount + 1 => m \notin IdsOnDisk

\* the capacity the handler's test constructs it with: max_queue_size=2
max_queue_size == 2

\* the messages accepted by emit and not yet run by the worker: the work
\* queue of the ThreadPoolExecutor, which has no maxsize
Backlog == Len(fh.queue)

\* C21: the backlog of the handler, the messages accepted by emit and not yet
\* written by the worker, never exceeds a fixed capacity, however fast
\* records are emitted.
C21_BoundedBacklog == Backlog <= max_queue_size

\* the steps of _rotate_logs that touch the directory, each of which may
\* raise OSError: the unlink of the oldest backup, the rename of an
\* existing generation i, the rename of the active file
RotationSteps(dir, backupCount) ==
    (IF dir.gen[backupCount].exists
     THEN {[op |-> "unlink", i |-> backupCount]} ELSE {})
        \cup {[op |-> "rename", i |-> i] :
                i \in {j \in 1 .. (backupCount - 1) : dir.gen[j].exists}}
        \cup (IF dir.active.exists THEN {[op |-> "move", i |-> 1]} ELSE {})

RECURSIVE ShiftBackupsDownTo(_, _, _)
\* the loop of _rotate_logs from generation i down to generation last
ShiftBackupsDownTo(gen, i, last) ==
    IF i < last THEN gen
    ELSE ShiftBackupsDownTo(IF gen[i].exists
                            THEN [gen EXCEPT ![i + 1] = gen[i], ![i] = NoFile]
                            ELSE gen,
                            i - 1, last)

\* AsyncFileHandler._rotate_logs when the given step raises: the steps
\* before it are done, the except clause prints and the method returns
rotate_logs_raising(dir, backupCount, step) ==
    LET unlinked == IF dir.gen[backupCount].exists
                    THEN [dir.gen EXCEPT ![backupCount] = NoFile]
                    ELSE dir.gen
    IN IF step.op = "unlink" THEN dir
       ELSE IF step.op = "rename"
       THEN [dir EXCEPT !.gen = ShiftBackupsDownTo(unlinked, backupCount - 1, step.i + 1)]
       ELSE [dir EXCEPT !.gen = ShiftBackups(unlinked, backupCount - 1)]

\* AsyncFileHandler._write_log when a step of the rotation raises: the
\* message is written after _rotate_logs returned
write_log_rotation_raising(dir, message, maxBytes, backupCount, step) ==
    LET d1 == [rotate_logs_raising(dir, backupCount, step) EXCEPT
                  !.rotations = @ + 1,
                  !.pre = [active |-> dir.active, gen |-> dir.gen]]
    IN [d1 EXCEPT !.active = File(d1.active.content \o <<message>>),
                  !.written = Append(@, d1.rotations)]

\* the worker runs the next _write_log, the active file is larger than
\* maxBytes and a step of the rotation raises
WriteLogRotationRaises ==
    /\ fh.queue # <<>>
    /\ fs.active.exists
    /\ StSize(fs.active.content) > fh.maxBytes
    /\ \E step \in RotationSteps(fs, fh.backupCount) :
          fs' = write_log_rotation_raising(fs, Head(fh.queue), fh.maxBytes,
                                           fh.backupCount, step)
    /\ fh' = [fh EXCEPT !.queue = Tail(@)]
    /\ OthersUnchangedF

NextFileRaising == Emit \/ WriteLog \/ WriteLogRotationRaises

\* the active file as it was before the last message was appended to it
BeforeLastAppend(file) == SubSeq(file.content, 1, Len(file.content) - 1)

\* C20: no message is appended to an active file whose size exceeds
\* maxBytes, also when a step of the rotation fails: the active file, without
\* the message written to it last, is never larger than maxBytes.
C20_RotateBeforeWrite ==
    (fs.active.exists /\ fs.active.content # <<>>) =>
        StSize(BeforeLastAppend(fs.active)) <= fh.maxBytes

(***************************************************************************)
(* AsyncFileHandler: emit, the worker and close                            *)
(***************************************************************************)

\* the handler's executor and its surroundings: pc is the position of
\* close(), shutdown the executor's flag, accepted the ids of the messages
\* submit took, at_close and pending_at_close what close() found, processed
\* the ids the worker ran in the order it ran them, stderr the number of
\* reports printed, raised whether an exception reached a caller of emit
CloseInit ==
    hc = [pc |-> "open", shutdown |-> FALSE, accepted |-> {}, at_close |-> {},
          pending_at_close |-> 0, processed |-> <<>>, stderr |-> 0,
          raised |-> FALSE]

\* the try block of emit: msg = self.format(record), then
\* self.executor.submit(self._write_log, msg), which raises RuntimeError
\* after shutdown
TryEmit(f, h, size, format_raises) ==
    IF format_raises THEN [exc |-> "Exception", fh |-> f, hc |-> h]
    ELSE IF h.shutdown THEN [exc |-> "RuntimeError", fh |-> f, hc |-> h]
    ELSE [exc |-> "",
          fh |-> [f EXCEPT !.queue = Append(@, [id |-> f.emitted + 1, size |-> size])],
          hc |-> [h EXCEPT !.accepted = @ \cup {f.emitted + 1}]]

\* emit without its except clause: the exception reaches the caller
emit_propagating(f, h, size, format_raises) ==
    LET t == TryEmit(f, h, size, format_raises)
    IN [fh |-> [t.fh EXCEPT !.emitted = @ + 1],
        hc |-> [t.hc EXCEPT !.raised = @ \/ t.exc # ""]]

\* AsyncFileHandler.emit: except Exception: self.handleError(record), which
\* prints to stderr and returns
emit(f, h, size, format_raises) ==
    LET t == TryEmit(f, h, size, format_raises)
    IN [fh |-> [t.fh EXCEPT !.emitted = @ + 1],
        hc |-> IF t.exc = "" THEN t.hc
               ELSE [t.hc EXCEPT !.stderr = @ + 1]]

OthersUnchangedX ==
    UNCHANGED <<metricsVars, rateVars, piiVars, errVars, corrVars, logVars,
                chainVars, summaryVars, sampVars, healthVars>>

\* a record handed to emit, in any state of the handler
EmitRecord ==
    /\ fh.emitted < MaxMessages
    /\ \E size \in 1 .. MaxMessageBytes, format_raises \in BOOLEAN :
          LET e == emit(fh, hc, size, format_raises)
          IN fh' = e.fh /\ hc' = e.hc
    /\ UNCHANGED fs
    /\ OthersUnchangedX

\* the worker thread runs the next _write_log, which writes the message
Worker ==
    /\ fh.queue # <<>>
    /\ fs' = write_log(fs, Head(fh.queue), fh.maxBytes, fh.backupCount)
    /\ fh' = [fh EXCEPT !.queue = Tail(@)]
    /\ hc' = [hc EXCEPT !.processed = Append(@, Head(fh.queue).id)]
    /\ OthersUnchangedX

\* the worker thread runs the next _write_log and a step of the rotation
\* raises: _rotate_logs prints the error, the message is written
WorkerRotationRaises ==
    /\ fh.queue # <<>>
    /\ fs.active.exists
    /\ StSize(fs.active.content) > fh.maxBytes
    /\ \E step \in RotationSteps(fs, fh.backupCount) :
          fs' = write_log_rotation_raising(fs, Head(fh.queue), fh.maxBytes,
                                           fh.backupCount, step)
    /\ fh' = [fh EXCEPT !.queue = Tail(@)]
    /\ hc' = [hc EXCEPT !.processed = Append(@, Head(fh.queue).id),
                        !.stderr = @ + 1]
    /\ OthersUnchangedX

\* the worker thread runs the next _write_log and open() raises: the
\* rotation, if one was due, is done, the except clause of _write_log prints
\* the error and the message is not written
WorkerWriteRaises ==
    /\ fh.queue # <<>>
    /\ fs' = IF fs.active.exists /\ StSize(fs.active.content) > fh.maxBytes
             THEN [rotate_logs(fs, fh.backupCount) EXCEPT
                      !.rotations = @ + 1,
                      !.pre = [active |-> fs.active, gen |-> fs.gen]]
             ELSE fs
    /\ fh' = [fh EXCEPT !.queue = Tail(@)]
    /\ hc' = [hc EXCEPT !.processed = Append(@, Head(fh.queue).id),
                        !.stderr = @ + 1]
    /\ OthersUnchangedX

\* executor.shutdown(wait=False) returns at once
shutdown_done_nowait(queue) == TRUE

\* executor.shutdown(wait=True) returns when the worker thread has been
\* joined: it exits once the work queue is drained
shutdown_done(queue) == queue = <<>>

\* close() is called: super().close(), then shutdown sets the flag
Close ==
    /\ hc.pc = "open"
    /\ hc' = [hc EXCEPT !.pc = "closing", !.shutdown = TRUE,
                        !.at_close = hc.accepted,
                        !.pending_at_close = Len(fh.queue)]
    /\ UNCHANGED <<fh, fs>>
    /\ OthersUnchangedX

\* close() returns
CloseReturns ==
    /\ hc.pc = "closing"
    /\ shutdown_done(fh.queue)
    /\ hc' = [hc EXCEPT !.pc = "closed"]
    /\ UNCHANGED <<fh, fs>>
    /\ OthersUnchangedX

NextWorker == Worker \/ WorkerRotationRaises \/ WorkerWriteRaises

NextClose == EmitRecord \/ NextWorker \/ Close \/ CloseReturns

\* C22: close() returns only after every message submitted before the call
\* has been processed by the worker; the worker processes the messages in
\* submission order and no accepted message is dropped.
C22_CloseDrains ==
    /\ hc.pc = "closed" => hc.at_close \subseteq Range(hc.processed)
    /\ \A i, j \in DOMAIN hc.processed : i < j => hc.processed[i] < hc.processed[j]
    /\ hc.accepted = Range(hc.processed) \cup {fh.queue[i].id : i \in DOMAIN fh.queue}

\* close() was called with two messages pending and has returned
C22_Witness ==
    /\ hc.pc = "closed"
    /\ hc.pending_at_close >= 2
    /\ Len(hc.processed) >= 2

\* the worker has run a message in this step
WorkerStep == Len(hc'.processed) > Len(hc.processed)

\* the message the worker ran in this step is the last one of the active file
WrittenInStep ==
    /\ fs'.active.exists
    /\ fs'.active.content # <<>>
    /\ fs'.active.content[Len(fs'.active.content)] = Head(fh.queue)

\* the message the worker ran in this step was appended to an active file
\* larger than maxBytes: the rotation that was due has failed
RotationFailedInStep ==
    /\ fs.active.exists
    /\ StSize(fs.active.content) > fh.maxBytes
    /\ fs'.active.exists
    /\ fs'.active.content = fs.active.content \o <<Head(fh.queue)>>

\* C28: emit never raises to its caller, in any state of the handler (after
\* close() too), and does not write the file itself; a failure of the
\* background write or of the rotation is reported on stderr and leaves the
\* worker able to run the messages that follow.
C28_EmitNeverRaises ==
    /\ [](~hc.raised /\ (fh.queue # <<>> => ENABLED NextWorker))
    /\ [][/\ fh'.emitted # fh.emitted => fs' = fs
          /\ (WorkerStep /\ (~WrittenInStep \/ RotationFailedInStep)) =>
                hc'.stderr = hc.stderr + 1]_vars

\* a record was emitted after close() and reported by handleError, and the
\* worker has run a message after a failure was reported
C28_Witness ==
    /\ hc.pc = "closed"
    /\ fh.emitted > Cardinality(hc.accepted)
    /\ hc.stderr >= 2
    /\ Len(hc.processed) >= 2
    /\ fs.active.exists
    /\ fs.active.content # <<>>
    /\ fs.active.content[Len(fs.active.content)].id = hc.processed[Len(hc.processed)]

(***************************************************************************)
(* Correlation context: request_id_context, user_id_context,               *)
(* session_id_context                                                      *)
(***************************************************************************)

\* the number of requests handled concurrently, each as one task
MaxTasks == 2

Tasks == 1 .. MaxTasks
Slots == {"request_id", "user_id", "session_id"}

\* the value of an unset slot: the default None of the ContextVar
Unset == <<>>

\* the ids a request may pass to set_correlation_id; every request has its own
IdOf(slot, t) == <<slot, t>>

\* the context a task starts in: a copy of the context of the server, where
\* no slot was set
DefaultContext == [slot \in Slots |-> Unset]

\* supplied: the slots the last call of set_correlation_id passed a value for
NewTask == [pc |-> "new", own |-> DefaultContext, seen |-> DefaultContext,
            observed |-> FALSE, correlation |-> <<>>, formatted |-> FALSE,
            called |-> FALSE, supplied |-> {}]

CorrInit ==
    /\ cv = [t \in Tasks |-> DefaultContext]
    /\ tk = [t \in Tasks |-> NewTask]

\* a single variable shared by all tasks instead of one per context
ContextVarSetGlobal(contexts, t, slot, value) ==
    [u \in DOMAIN contexts |-> [contexts[u] EXCEPT ![slot] = value]]

\* ContextVar.set called in task t: it changes the context of t alone
ContextVarSet(contexts, t, slot, value) ==
    [contexts EXCEPT ![t][slot] = value]

\* ContextVar.get called in task t
ContextVarGet(contexts, t, slot) == contexts[t][slot]

\* set_correlation_id: the contexts afterwards; request_id is Unset when
\* the caller passes None, and a uuid4 is generated
set_correlation_id(contexts, t, request_id, user_id, session_id) ==
    LET rid == IF request_id = Unset THEN IdOf("uuid4", t) ELSE request_id
        c1 == ContextVarSet(contexts, t, "request_id", rid)
        c2 == IF user_id # Unset THEN ContextVarSet(c1, t, "user_id", user_id) ELSE c1
    IN IF session_id # Unset THEN ContextVarSet(c2, t, "session_id", session_id) ELSE c2

\* get_correlation_context
get_correlation_context(contexts, t) ==
    [slot \in Slots |-> ContextVarGet(contexts, t, slot)]

\* EnhancedJSONFormatter.format: log_entry["correlation"], the slots that
\* are set
FormatCorrelation(contexts, t) ==
    [slot \in {x \in Slots : ContextVarGet(contexts, t, x) # Unset} |->
        ContextVarGet(contexts, t, slot)]

OthersUnchangedC == UNCHANGED <<metricsVars, rateVars, piiVars, errVars, fileVars, logVars, chainVars, summaryVars, sampVars, closeVars, healthVars>>

\* the server starts a task for a request, in a copy of its own context
TaskStart(t) ==
    /\ tk[t].pc = "new"
    /\ tk' = [tk EXCEPT ![t].pc = "running"]
    /\ cv' = [cv EXCEPT ![t] = DefaultContext]
    /\ OthersUnchangedC

\* the request calls set_correlation_id
SetCorrelationId(t) ==
    /\ tk[t].pc = "running"
    /\ \E request_id \in {Unset, IdOf("request_id", t)},
          user_id \in {Unset, IdOf("user_id", t)},
          session_id \in {Unset, IdOf("session_id", t)} :
          /\ cv' = set_correlation_id(cv, t, request_id, user_id, session_id)
          /\ tk' = [tk EXCEPT
                      ![t].own =
                          [request_id |-> IF request_id = Unset THEN IdOf("uuid4", t)
                                          ELSE request_id,
                           user_id    |-> IF user_id = Unset THEN @.user_id ELSE user_id,
                           session_id |-> IF session_id = Unset THEN @.session_id
                                          ELSE session_id],
                      ![t].seen = DefaultContext,
                      ![t].observed = FALSE,
                      ![t].correlation = <<>>,
                      ![t].formatted = FALSE,
                      ![t].called = TRUE,
                      ![t].supplied =
                          {"request_id"}
                          \cup (IF user_id = Unset THEN {} ELSE {"user_id"})
                          \cup (IF session_id = Unset THEN {} ELSE {"session_id"})]
    /\ OthersUnchangedC

\* the request reads its context
GetCorrelationContext(t) ==
    /\ tk[t].pc = "running"
    /\ tk' = [tk EXCEPT ![t].seen = get_correlation_context(cv, t),
                        ![t].observed = TRUE]
    /\ UNCHANGED cv
    /\ OthersUnchangedC

\* a log record is formatted inside the request
FormatRecord(t) ==
    /\ tk[t].pc = "running"
    /\ tk' = [tk EXCEPT ![t].correlation = FormatCorrelation(cv, t),
                        ![t].formatted = TRUE]
    /\ UNCHANGED cv
    /\ OthersUnchangedC

\* the request is done: LoggingMiddleware.__call__ returns or raises and
\* resets no slot; the task the server ran it in then ends
TaskEnd(t) ==
    /\ tk[t].pc = "running"
    /\ tk' = [tk EXCEPT ![t] = [NewTask EXCEPT !.pc = "done"]]
    /\ UNCHANGED cv
    /\ OthersUnchangedC

NextCorr ==
    \E t \in Tasks :
        \/ TaskStart(t)
        \/ SetCorrelationId(t)
        \/ GetCorrelationContext(t)
        \/ FormatRecord(t)
        \/ TaskEnd(t)

\* C29: the correlation context is scoped to one request: once the request
\* is done no slot set for it is readable in its execution context any more,
\* and after a call of set_correlation_id that passed no user_id or
\* session_id those slots are absent instead of holding what an earlier call
\* in the same context had set.
C29_ScopedToRequest ==
    \A t \in Tasks :
        /\ tk[t].pc = "done" => get_correlation_context(cv, t) = DefaultContext
        /\ (tk[t].pc = "running" /\ tk[t].called) =>
              \A slot \in {"user_id", "session_id"} \ tk[t].supplied :
                  ContextVarGet(cv, t, slot) = Unset

\* C7: with requests handled concurrently as separate tasks, each having
\* set its own ids, what a request reads from the correlation context and
\* what a log record formatted inside it carries are the ids that request
\* set itself, never those of another request.
C7_Isolation ==
    \A t \in Tasks :
        /\ tk[t].observed => tk[t].seen = tk[t].own
        /\ tk[t].formatted =>
              \A slot \in DOMAIN tk[t].correlation :
                  tk[t].correlation[slot] = tk[t].own[slot]

\* two requests run at once, each has set its ids, and the one that set
\* them first read its context after the other had set its own
C7_Witness ==
    \E t, u \in Tasks :
        /\ t # u
        /\ tk[t].pc = "running" /\ tk[u].pc = "running"
        /\ tk[t].observed /\ tk[t].formatted
        /\ tk[t].own.request_id = IdOf("request_id", t)
        /\ tk[t].own.user_id = IdOf("user_id", t)
        /\ cv[u]["request_id"] = IdOf("request_id", u)
        /\ cv[u]["user_id"] = IdOf("user_id", u)
        /\ tk[t].seen.request_id = IdOf("request_id", t)
        /\ DOMAIN tk[t].correlation = Slots \ {"session_id"}

(***************************************************************************)
(* LoggingMiddleware                                                       *)
(***************************************************************************)

\* the requests passing through the middleware and the largest number of
\* http.response.body messages an application sends for one response
MaxLogRequests == 2
MaxBodyMessages == 2

LogRequests == 1 .. MaxLogRequests
ScopeTypes == {"http", "websocket"}

NewLogRequest ==
    [pc |-> "new", type |-> "", method |-> "", path |-> "",
     status_code |-> 0, bodies |-> 0, reports |-> 0, log |-> <<>>]

LogInit ==
    lm = [q \in LogRequests |-> NewLogRequest]

OthersUnchangedL == UNCHANGED <<mw, rateVars, piiVars, errVars, fileVars, corrVars, chainVars, summaryVars, sampVars, closeVars, healthVars>>

\* the metrics recorded without the status of the response: 200 is assumed
record_request_metrics_assumed(m, endpoint, method, status_code) ==
    record_request(m, EndpointKey(method, endpoint), 200)

\* record_request_metrics, with the collector setup_enhanced_logging installed
record_request_metrics(m, endpoint, method, status_code) ==
    record_request(m, EndpointKey(method, endpoint), status_code)

\* __call__ for a scope that is not http: the application is called with
\* the send of the caller
CallPassThrough(q) ==
    /\ lm[q].pc = "new"
    /\ \E type \in ScopeTypes \ {"http"} :
          lm' = [lm EXCEPT ![q].pc = "returned", ![q].type = type]
    /\ UNCHANGED mc
    /\ OthersUnchangedL

\* __call__ up to the call of the application: the correlation id is set
\* and "Request started" is logged
CallHttp(q) ==
    /\ lm[q].pc = "new"
    /\ \E method \in Methods, path \in Endpoints :
          lm' = [lm EXCEPT ![q].pc = "app", ![q].type = "http",
                           ![q].method = method, ![q].path = path,
                           ![q].log = Append(@, "Request started")]
    /\ UNCHANGED mc
    /\ OthersUnchangedL

\* send_wrapper receives http.response.start
SendResponseStart(q) ==
    /\ lm[q].pc = "app"
    /\ \E status \in StatusCodes :
          lm' = [lm EXCEPT ![q].pc = "started", ![q].status_code = status]
    /\ UNCHANGED mc
    /\ OthersUnchangedL

\* send_wrapper receives an http.response.body message: the metrics are
\* recorded and "Request completed" is logged
SendResponseBody(q) ==
    /\ lm[q].pc = "started"
    /\ lm[q].bodies < MaxBodyMessages
    /\ \E more_body \in BOOLEAN :
          lm' = [lm EXCEPT ![q].pc = IF more_body THEN "started" ELSE "sent",
                           ![q].bodies = @ + 1,
                           ![q].reports = @ + 1,
                           ![q].log = Append(@, "Request completed")]
    /\ mc' = record_request_metrics(mc, lm[q].path, lm[q].method, lm[q].status_code)
    /\ OthersUnchangedL

\* the application returns after the response was sent
AppReturns(q) ==
    /\ lm[q].pc = "sent"
    /\ lm' = [lm EXCEPT ![q].pc = "returned"]
    /\ UNCHANGED mc
    /\ OthersUnchangedL

\* the application raises: "Request failed with exception" is logged and
\* the exception is raised again
AppRaises(q) ==
    /\ lm[q].pc \in {"app", "started"}
    /\ lm' = [lm EXCEPT ![q].pc = "raised",
                        ![q].log = Append(@, "Request failed with exception")]
    /\ UNCHANGED mc
    /\ OthersUnchangedL

NextLog ==
    \E q \in LogRequests :
        \/ CallPassThrough(q)
        \/ CallHttp(q)
        \/ SendResponseStart(q)
        \/ SendResponseBody(q)
        \/ AppReturns(q)
        \/ AppRaises(q)

\* C10: for every HTTP request that went through the middleware and ended,
\* with its response sent or in an exception, exactly one tuple was reported
\* to the metrics collector, however many body messages carried the response.
C10_OneReportPerRequest ==
    \A q \in LogRequests :
        (lm[q].type = "http" /\ lm[q].pc \in {"returned", "raised"}) =>
            lm[q].reports = 1

\* C26: for every HTTP request "Request started" is logged before any
\* "Request completed" or "Request failed with exception" of that request;
\* the metrics are updated only once the status of the response is known
\* (http.response.start was seen), with that status, and before the
\* middleware returns to its caller: a request that has returned or raised
\* changes nothing any more.
C26_StartedFirst ==
    /\ [](\A q \in LogRequests :
            lm[q].type = "http" =>
                /\ \A i \in DOMAIN lm[q].log :
                      IF i = 1 THEN lm[q].log[i] = "Request started"
                      ELSE lm[q].log[i] \in {"Request completed",
                                             "Request failed with exception"}
                /\ lm[q].reports > 0 => lm[q].status_code # 0)
    /\ [][/\ mc' # mc =>
                \E q \in LogRequests :
                    /\ lm[q].pc = "started"
                    /\ lm[q].status_code # 0
                    /\ lm'[q].pc \in {"started", "sent"}
                    /\ lm'[q].reports = lm[q].reports + 1
                    /\ mc'.status_codes[lm[q].status_code] =
                          mc.status_codes[lm[q].status_code] + 1
          /\ \A q \in LogRequests :
                /\ lm[q].pc \in {"returned", "raised"} => lm'[q] = lm[q]
                /\ lm'[q].reports # lm[q].reports => mc' # mc]_vars

\* one request was answered 404 and has returned, another has raised after
\* its response had started
C26_Witness ==
    \E q, p \in LogRequests :
        /\ lm[q].pc = "returned"
        /\ lm[q].status_code = 404
        /\ lm[q].log = <<"Request started", "Request completed">>
        /\ lm[p].pc = "raised"
        /\ lm[p].status_code # 0
        /\ lm[p].log[Len(lm[p].log)] = "Request failed with exception"

(***************************************************************************)
(* Specifications                                                          *)
(***************************************************************************)

(***************************************************************************)
(* The middleware chain of create_application: one request at a time       *)
(* travels inwards through the stack to the route and its response, or the *)
(* exception the route raised, travels back                                *)
(***************************************************************************)

\* the number of requests sent through the chain
MaxChainRequests == 3

\* app.add_middleware: the last middleware added is the first to process a
\* request
add_middleware(user_middleware, cls) == <<cls>> \o user_middleware

\* the add_middleware calls of create_application, in their order
create_application ==
    add_middleware(
        add_middleware(
            add_middleware(
                add_middleware(
                    add_middleware(<<>>, "SecurityMiddleware"),
                    "RateLimitingMiddleware"),
                "LoggingMiddleware"),
            "RequestTrackingMiddleware"),
        "CORSMiddleware")

\* the stack the application builds around the router, outermost first: the
\* handler registered for Exception runs in ServerErrorMiddleware, those for
\* every other class in ExceptionMiddleware
MiddlewareStack ==
    <<"ServerErrorMiddleware">> \o create_application \o <<"ExceptionMiddleware">>

Schemes == {"http", "https"}

\* what the route does: it answers 200 or raises
RouteExceptions ==
    {NotFoundError(<<"Horse breed">>, <<"7">>),
     Exc("HTTPException", <<>>, "", NoDetails,
         [NoAttrs EXCEPT !.status_code = HTTP_404_NOT_FOUND,
                         !.detail = <<"Horse breed not found">>]),
     Exc("OperationalError", <<"connection to postgresql://admin:pw@db failed">>,
         "", NoDetails, NoAttrs),
     Exc("ZeroDivisionError", <<"division by zero">>, "", NoDetails, NoAttrs)}
RouteOutcomes == {NoExc} \cup RouteExceptions

IdleChain ==
    [pc |-> "idle", pos |-> 0, n |-> 0, scheme |-> "", path |-> "",
     outcome |-> NoExc, exc |-> NoExc, state_request_id |-> "",
     correlation_id |-> "", resp |-> NoResponse, ins |-> <<>>, outs |-> <<>>,
     log |-> <<>>]

ChainInit == ch = IdleChain

OthersUnchangedH ==
    UNCHANGED <<metricsVars, now, rq, piiVars, errVars, fileVars, corrVars, logVars,
                summaryVars, sampVars, closeVars, healthVars>>

\* the layer the request, its response or its exception is at
AtLayer(cls) ==
    /\ ch.pos \in 1 .. Len(MiddlewareStack)
    /\ MiddlewareStack[ch.pos] = cls

\* the layer calls the next one in / hands a response or an exception back
Inwards(c, cls) == [c EXCEPT !.pos = @ + 1, !.ins = Append(@, cls)]
Outwards(c, cls) == [c EXCEPT !.pos = @ - 1, !.outs = Append(@, cls)]

\* response.headers[name] = value, for the items of a dict
WithHeaders(resp, headers) == [resp EXCEPT !.headers = Update(@, headers)]

\* the server hands a request to the application
Receive ==
    /\ ch.pc \in {"idle", "sent"}
    /\ ch.n < MaxChainRequests
    /\ \E scheme \in Schemes, path \in Paths, outcome \in RouteOutcomes :
          ch' = [IdleChain EXCEPT !.pc = "in", !.pos = 1, !.n = ch.n + 1,
                                  !.scheme = scheme, !.path = path,
                                  !.outcome = outcome]
    /\ UNCHANGED rl
    /\ OthersUnchangedH

\* ServerErrorMiddleware and CORSMiddleware call the next layer
ServerErrorIn ==
    /\ ch.pc = "in" /\ AtLayer("ServerErrorMiddleware")
    /\ ch' = Inwards(ch, "ServerErrorMiddleware")
    /\ UNCHANGED rl
    /\ OthersUnchangedH

CorsIn ==
    /\ ch.pc = "in" /\ AtLayer("CORSMiddleware")
    /\ ch' = Inwards(ch, "CORSMiddleware")
    /\ UNCHANGED rl
    /\ OthersUnchangedH

\* RequestTrackingMiddleware.dispatch up to call_next: a uuid4 is generated
\* and stored in request.state
TrackingIn ==
    /\ ch.pc = "in" /\ AtLayer("RequestTrackingMiddleware")
    /\ ch' = [Inwards(ch, "RequestTrackingMiddleware") EXCEPT
                 !.state_request_id = "uuid4-tracking"]
    /\ UNCHANGED rl
    /\ OthersUnchangedH

\* LoggingMiddleware.__call__ up to the call of the application:
\* set_correlation_id() generates a uuid4 of its own
LoggingIn ==
    /\ ch.pc = "in" /\ AtLayer("LoggingMiddleware")
    /\ ch' = [Inwards(ch, "LoggingMiddleware") EXCEPT
                 !.correlation_id = "uuid4-logging"]
    /\ UNCHANGED rl
    /\ OthersUnchangedH

\* RateLimitingMiddleware.dispatch up to call_next, for the one client of
\* the chain: the 429 response is returned to the layer outside
RateLimitIn ==
    /\ ch.pc = "in" /\ AtLayer("RateLimitingMiddleware")
    /\ LET client_ip == ClientIp("10.0.0.1")
           cleaned == CleanupOldEntries(rl.clients, now, rl.period)
           known == client_ip \in DOMAIN cleaned
           recent_requests ==
               IF known THEN RecentRequests(cleaned[client_ip], now, rl.period)
               ELSE <<>>
           limited == RateLimitResponse(RequestIdOf(ch.state_request_id))
       IN IF ch.path \in AllowListedPaths
          THEN /\ ch' = Inwards(ch, "RateLimitingMiddleware")
               /\ UNCHANGED rl
          ELSE IF known /\ OverLimit(recent_requests, rl.calls)
          THEN /\ rl' = [rl EXCEPT !.clients = cleaned]
               /\ ch' = [ch EXCEPT !.pc = "out", !.pos = @ - 1,
                                   !.ins = Append(@, "RateLimitingMiddleware"),
                                   !.outs = Append(@, "RateLimitingMiddleware"),
                                   !.resp = JSONResponse(limited.status, limited.body,
                                                         limited.headers)]
          ELSE /\ rl' = [rl EXCEPT !.clients =
                           [ip \in DOMAIN cleaned \cup {client_ip} |->
                               IF ip = client_ip THEN recent_requests \o <<now>>
                               ELSE cleaned[ip]]]
               /\ ch' = Inwards(ch, "RateLimitingMiddleware")
    /\ OthersUnchangedH

\* SecurityMiddleware.dispatch and ExceptionMiddleware call the next layer
SecurityIn ==
    /\ ch.pc = "in" /\ AtLayer("SecurityMiddleware")
    /\ ch' = Inwards(ch, "SecurityMiddleware")
    /\ UNCHANGED rl
    /\ OthersUnchangedH

ExceptionMiddlewareIn ==
    /\ ch.pc = "in" /\ AtLayer("ExceptionMiddleware")
    /\ ch' = Inwards(ch, "ExceptionMiddleware")
    /\ UNCHANGED rl
    /\ OthersUnchangedH

\* the route answers 200 or raises
Route ==
    /\ ch.pc = "in" /\ ch.pos = Len(MiddlewareStack) + 1
    /\ ch' = IF ch.outcome = NoExc
             THEN [ch EXCEPT !.pc = "out", !.pos = @ - 1,
                             !.resp = JSONResponse(200, [breeds |-> <<>>], <<>>)]
             ELSE [ch EXCEPT !.pc = "raise", !.pos = @ - 1, !.exc = ch.outcome]
    /\ UNCHANGED rl
    /\ OthersUnchangedH

\* the response of the handler registered for the class of an exception
HandlerResponse(handler, request_id, exc) ==
    CASE handler = "custom_exception_handler" ->
            custom_exception_handler(request_id, exc).resp
      [] handler = "http_exception_handler" ->
            http_exception_handler(request_id, exc).resp
      [] handler = "validation_exception_handler" ->
            validation_exception_handler(request_id, exc).resp
      [] handler = "sqlalchemy_exception_handler" ->
            sqlalchemy_exception_handler(request_id, exc).resp
      [] OTHER -> generic_exception_handler(request_id, exc).resp

\* ExceptionMiddleware: a response passes; an exception whose class has a
\* handler other than that of Exception is answered by it, any other
\* exception is raised again
ExceptionMiddlewareOut ==
    /\ ch.pc \in {"out", "raise"} /\ AtLayer("ExceptionMiddleware")
    /\ LET handler == LookupHandler(ch.exc.cls)
           c == Outwards(ch, "ExceptionMiddleware")
       IN ch' = IF ch.pc = "raise" /\ handler # "generic_exception_handler"
                THEN [c EXCEPT !.pc = "out",
                               !.resp = HandlerResponse(
                                            handler, RequestIdOf(ch.state_request_id),
                                            ch.exc)]
                ELSE c
    /\ UNCHANGED rl
    /\ OthersUnchangedH

\* the headers SecurityMiddleware.dispatch sets on the response of call_next
SecurityHeaders(scheme) ==
    LET always == [h \in {"X-Content-Type-Options", "X-Frame-Options",
                          "X-XSS-Protection", "Referrer-Policy"} |->
                     CASE h = "X-Content-Type-Options" -> "nosniff"
                       [] h = "X-Frame-Options" -> "DENY"
                       [] h = "X-XSS-Protection" -> "1; mode=block"
                       [] OTHER -> "strict-origin-when-cross-origin"]
    IN IF scheme = "https"
       THEN Update(always, [h \in {"Strict-Transport-Security"} |->
                               "max-age=31536000; includeSubDomains"])
       ELSE always

\* SecurityMiddleware.dispatch after call_next; an exception raised by
\* call_next leaves dispatch as it is
SecurityOut ==
    /\ ch.pc \in {"out", "raise"} /\ AtLayer("SecurityMiddleware")
    /\ LET c == Outwards(ch, "SecurityMiddleware")
       IN ch' = IF ch.pc = "out"
                THEN [c EXCEPT !.resp = WithHeaders(@, SecurityHeaders(ch.scheme))]
                ELSE c
    /\ UNCHANGED rl
    /\ OthersUnchangedH

\* RateLimitingMiddleware.dispatch after call_next: the rate limiting headers
RateLimitOut ==
    /\ ch.pc \in {"out", "raise"} /\ AtLayer("RateLimitingMiddleware")
    /\ LET c == Outwards(ch, "RateLimitingMiddleware")
           client_ip == ClientIp("10.0.0.1")
           recent_requests == RecentRequests(rl.clients[client_ip], now, rl.period)
           remaining == Max(0, rl.calls - Len(recent_requests))
       IN ch' = IF /\ ch.pc = "out"
                   /\ ch.path \notin AllowListedPaths
                   /\ client_ip \in DOMAIN rl.clients
                THEN [c EXCEPT !.resp = WithHeaders(@,
                         [h \in {"X-RateLimit-Limit", "X-RateLimit-Period",
                                 "X-RateLimit-Remaining"} |->
                            CASE h = "X-RateLimit-Limit" -> rl.calls
                              [] h = "X-RateLimit-Period" -> rl.period
                              [] OTHER -> remaining])]
                ELSE c
    /\ UNCHANGED rl
    /\ OthersUnchangedH

\* logger.error(msg, extra={..., elapsed_key: ..., "error": str(exc),
\* "error_type": exc.__class__.__name__}, exc_info=True)
FailureRecord(logger, msg, elapsed_key, exc) ==
    [logger |-> logger, level |-> "ERROR", msg |-> msg,
     extra |-> {"request_id", "method", "path", elapsed_key, "error", "error_type"},
     error_type |-> exc.cls]

\* the except clause of LoggingMiddleware.__call__: log, then raise
LoggingExcept(c) ==
    [c EXCEPT !.log = Append(@, FailureRecord("LoggingMiddleware",
                                              "Request failed with exception",
                                              "response_time", c.exc))]

\* an except clause that answers the exception itself instead of raising it
TrackingExceptAnswered(c) ==
    [c EXCEPT !.log = Append(@, FailureRecord("RequestTrackingMiddleware",
                                              "Request failed with unhandled exception",
                                              "process_time", c.exc)),
              !.pc = "out",
              !.resp = generic_exception_handler(RequestIdOf(c.state_request_id),
                                                 c.exc).resp]

\* the except clause of RequestTrackingMiddleware.dispatch: log, then
\* raise exc
TrackingExcept(c) ==
    [c EXCEPT !.log = Append(@, FailureRecord("RequestTrackingMiddleware",
                                              "Request failed with unhandled exception",
                                              "process_time", c.exc))]

\* LoggingMiddleware: send_wrapper passes the response on; the except
\* clause logs the exception and raises it again
LoggingOut ==
    /\ ch.pc \in {"out", "raise"} /\ AtLayer("LoggingMiddleware")
    /\ ch' = IF ch.pc = "raise"
             THEN LoggingExcept(Outwards(ch, "LoggingMiddleware"))
             ELSE Outwards(ch, "LoggingMiddleware")
    /\ UNCHANGED rl
    /\ OthersUnchangedH

\* RequestTrackingMiddleware.dispatch after call_next: the two headers are
\* set on a response; the except clause logs the exception and raises it
TrackingOut ==
    /\ ch.pc \in {"out", "raise"} /\ AtLayer("RequestTrackingMiddleware")
    /\ LET c == Outwards(ch, "RequestTrackingMiddleware")
       IN ch' = IF ch.pc = "out"
                THEN [c EXCEPT !.resp = WithHeaders(@,
                         [h \in {"X-Request-ID", "X-Process-Time"} |->
                            IF h = "X-Request-ID" THEN ch.state_request_id
                            ELSE "process_time"])]
                ELSE TrackingExcept(c)
    /\ UNCHANGED rl
    /\ OthersUnchangedH

CorsOut ==
    /\ ch.pc \in {"out", "raise"} /\ AtLayer("CORSMiddleware")
    /\ ch' = Outwards(ch, "CORSMiddleware")
    /\ UNCHANGED rl
    /\ OthersUnchangedH

\* ServerErrorMiddleware: a response is sent; an exception that came
\* through every layer is answered by the handler registered for Exception
ServerErrorOut ==
    /\ ch.pc \in {"out", "raise"} /\ AtLayer("ServerErrorMiddleware")
    /\ LET c == [Outwards(ch, "ServerErrorMiddleware") EXCEPT !.pc = "sent"]
       IN ch' = IF ch.pc = "raise"
                THEN [c EXCEPT !.resp = generic_exception_handler(
                                            RequestIdOf(ch.state_request_id),
                                            ch.exc).resp]
                ELSE c
    /\ UNCHANGED rl
    /\ OthersUnchangedH

NextChain ==
    \/ Receive
    \/ ServerErrorIn \/ CorsIn \/ TrackingIn \/ LoggingIn
    \/ RateLimitIn \/ SecurityIn \/ ExceptionMiddlewareIn
    \/ Route
    \/ ExceptionMiddlewareOut \/ SecurityOut \/ RateLimitOut \/ LoggingOut
    \/ TrackingOut \/ CorsOut \/ ServerErrorOut

\* the exception the route raised has no handler but that of Exception: it
\* is raised through the layers around ExceptionMiddleware
RaisedThroughLayers ==
    ch.exc # NoExc /\ LookupHandler(ch.exc.cls) = "generic_exception_handler"

\* C27: when the application below raises, LoggingMiddleware and
\* RequestTrackingMiddleware each log the failure, with the elapsed time and
\* the type of the exception, and raise the same exception again: neither
\* answers it nor suppresses it, so it reaches the layer above.
C27_LogAndReraise ==
    RaisedThroughLayers =>
        /\ \A i \in DOMAIN ch.log : ch.log[i].logger \in Range(ch.outs)
        /\ \A cls \in Range(ch.outs) :
              /\ cls = "LoggingMiddleware" =>
                    \E i \in DOMAIN ch.log :
                        /\ ch.log[i].logger = cls
                        /\ ch.log[i].level = "ERROR"
                        /\ ch.log[i].error_type = ch.outcome.cls
                        /\ {"response_time", "error_type"} \subseteq ch.log[i].extra
              /\ cls = "RequestTrackingMiddleware" =>
                    \E i \in DOMAIN ch.log :
                        /\ ch.log[i].logger = cls
                        /\ ch.log[i].level = "ERROR"
                        /\ ch.log[i].error_type = ch.outcome.cls
                        /\ {"process_time", "error_type"} \subseteq ch.log[i].extra
        /\ ch.exc = ch.outcome
        /\ \/ ch.pc = "raise"
           \/ /\ ch.pc = "sent"
              /\ ch.outs[Len(ch.outs)] = "ServerErrorMiddleware"
              /\ Len(ch.log) = 2

\* a ZeroDivisionError of the route was logged by both middlewares and has
\* reached ServerErrorMiddleware
C27_Witness ==
    /\ ch.pc = "sent"
    /\ ch.exc.cls = "ZeroDivisionError"
    /\ Len(ch.log) = 2
    /\ ch.log[1].logger = "LoggingMiddleware"
    /\ ch.log[2].logger = "RequestTrackingMiddleware"
    /\ ch.resp.status_code = 500

\* the four middlewares of the chain that the application defines itself
OwnMiddlewares ==
    {"SecurityMiddleware", "RateLimitingMiddleware", "LoggingMiddleware",
     "RequestTrackingMiddleware"}

RECURSIVE Restrict(_, _)
\* the items of a sequence that are in S, in their order
Restrict(seq, S) ==
    IF seq = <<>> THEN <<>>
    ELSE IF Head(seq) \in S THEN <<Head(seq)>> \o Restrict(Tail(seq), S)
    ELSE Restrict(Tail(seq), S)

\* C11: a request that reaches the route runs, on the way in, the security
\* headers middleware first, then rate limiting, then logging, then request
\* tracking, and its response passes them in the reverse order.
C11_ChainOrder ==
    (ch.pc = "sent" /\ ch.resp.status_code = 200) =>
        /\ Restrict(ch.ins, OwnMiddlewares) =
              <<"SecurityMiddleware", "RateLimitingMiddleware",
                "LoggingMiddleware", "RequestTrackingMiddleware">>
        /\ Restrict(ch.outs, OwnMiddlewares) =
              <<"RequestTrackingMiddleware", "LoggingMiddleware",
                "RateLimitingMiddleware", "SecurityMiddleware">>

\* C12: every response that leaves the chain, a 429 of the rate limiter
\* and an error response included, carries the four security headers, and
\* Strict-Transport-Security exactly when the scheme of the request is https.
C12_SecurityHeaders ==
    ch.pc = "sent" =>
        /\ {"X-Content-Type-Options", "X-Frame-Options", "X-XSS-Protection",
            "Referrer-Policy"} \subseteq DOMAIN ch.resp.headers
        /\ ("Strict-Transport-Security" \in DOMAIN ch.resp.headers)
              <=> (ch.scheme = "https")

\* C13: every response to a request that went through
\* RequestTrackingMiddleware carries X-Request-ID and X-Process-Time, also a
\* 429, an error response of a handler, and the response to a request whose
\* exception came back through the middleware.
C13_TrackingHeaders ==
    (ch.pc = "sent" /\ ch.state_request_id # "") =>
        {"X-Request-ID", "X-Process-Time"} \subseteq DOMAIN ch.resp.headers

\* C14: the request_id of the error envelope a client receives is the
\* request id of the correlation context of that request, where one is set.
C14_EnvelopeCorrelationId ==
    (ch.pc = "sent" /\ ch.resp.status_code >= 400 /\ ch.correlation_id # "") =>
        Envelope(ch.resp.content).request_id = ch.correlation_id

(***************************************************************************)
(* MetricsCollector.get_summary                                            *)
(***************************************************************************)

\* number of record_request calls made on the collector summarised
MaxRecorded == 4

\* status_codes is a defaultdict(int): any status is a key
RecordedStatusCodes == {200, 399, 400, 499, 500}

\* 'error_rate' is kept in hundredths: 3333 is 33.33
Hundredths == 100
Percent == 100

\* the quotient cut off instead of rounded
RoundDown(num, den) == num \div den

\* round(x, ndigits) of the quotient num / den, to the nearest integer, a tie
\* to the even one (a tie of error_rate needs request_count a multiple of 32)
Round(num, den) ==
    LET q == num \div den
        r == num % den
    IN IF 2 * r < den THEN q
       ELSE IF 2 * r > den THEN q + 1
       ELSE IF q % 2 = 0 THEN q ELSE q + 1

\* self.endpoints.items(): the (key, bucket) pairs in insertion order
Items(m) ==
    [i \in 1 .. Cardinality({k \in DOMAIN m.endpoints : m.endpoints[k] # 0}) |->
        LET key == CHOOSE k \in DOMAIN m.endpoints : m.endpoints[k] = i
        IN <<key, m.heap[i]>>]

\* one step of a sort that is not stable: x goes in front of the pairs of
\* its own count
InsertByCountUnstable(s, x) ==
    LET k == Cardinality({i \in 1 .. Len(s) : s[i][2].count > x[2].count})
    IN SubSeq(s, 1, k) \o <<x>> \o SubSeq(s, k + 1, Len(s))

\* one step of the stable sort: x, which follows every pair of s in the
\* input, goes behind the pairs of s whose count is not smaller
InsertByCount(s, x) ==
    LET k == Cardinality({i \in 1 .. Len(s) : s[i][2].count >= x[2].count})
    IN SubSeq(s, 1, k) \o <<x>> \o SubSeq(s, k + 1, Len(s))

RECURSIVE sorted(_)
\* sorted(items, key=lambda x: x[1]['count'], reverse=True): stable, so
\* pairs of equal count keep the order of the input
sorted(items) ==
    IF items = <<>> THEN <<>>
    ELSE InsertByCount(sorted(SubSeq(items, 1, Len(items) - 1)), items[Len(items)])

\* the slice [:10]
TopLimit == 10

Slice(s, stop) == SubSeq(s, 1, IF Len(s) < stop THEN Len(s) ELSE stop)

\* dict(sorted(...)[:10]): a dict keeps the order of the pairs it is built from
top_endpoints(items) == Slice(sorted(items), TopLimit)

\* MetricsCollector.get_summary (the timing entries are left out)
get_summary(m) ==
    [total_requests |-> m.request_count,
     total_errors   |-> m.error_count,
     total_warnings |-> m.warning_count,
     error_rate     |-> IF m.request_count > 0
                        THEN Round(m.error_count * Percent * Hundredths, m.request_count)
                        ELSE 0,
     status_codes   |-> m.status_codes,
     top_endpoints  |-> top_endpoints(Items(m))]

\* the objects of the collector that the dict returned by get_summary
\* refers to: 'status_codes' is self.status_codes itself, and the values of
\* the new dict 'top_endpoints' are the bucket dicts of self.endpoints
SummaryRefs(m) ==
    [status_codes  |-> "self.status_codes",
     top_endpoints |-> [i \in DOMAIN top_endpoints(Items(m)) |->
                           LET key == top_endpoints(Items(m))[i][1]
                           IN <<key, m.endpoints[key]>>]]

\* the contents of a returned summary as its holder reads them while the
\* collector is m: the numbers are values, the dicts are read through the
\* references
ReadSummary(summary, refs, m) ==
    [summary EXCEPT
        !.status_codes  = m.status_codes,
        !.top_endpoints = [i \in DOMAIN refs.top_endpoints |->
                              <<refs.top_endpoints[i][1],
                                m.heap[refs.top_endpoints[i][2]]>>]]

SummaryInit ==
    sm = [collector |-> [MetricsCollectorInit EXCEPT
                            !.status_codes = [s \in RecordedStatusCodes |-> 0]],
          calls     |-> <<>>,
          returned  |-> <<>>,
          refs      |-> <<>>]

OthersUnchangedS ==
    UNCHANGED <<metricsVars, rateVars, piiVars, errVars, fileVars, corrVars, logVars,
                chainVars, tp, sampVars, closeVars, healthVars>>

\* one call of record_request, the calls one after the other
RecordRequest ==
    /\ Len(sm.calls) < MaxRecorded
    /\ \E method \in Methods, endpoint \in Endpoints, status \in RecordedStatusCodes :
          sm' = [sm EXCEPT
                    !.collector = record_request(@, EndpointKey(method, endpoint), status),
                    !.calls = Append(@, [key |-> EndpointKey(method, endpoint),
                                         status_code |-> status])]
    /\ OthersUnchangedS

\* one call of get_summary
GetSummary ==
    /\ sm' = [sm EXCEPT !.returned = <<get_summary(sm.collector)>>,
                        !.refs = <<SummaryRefs(sm.collector)>>]
    /\ OthersUnchangedS

NextSummary == RecordRequest \/ GetSummary

Abs(x) == IF x >= 0 THEN x ELSE 0 - x

\* C16, as stated: the error_rate of a summary is exactly
\* 100 * total_errors / total_requests when total_requests > 0, and 0 when
\* total_requests is 0.
C16_ErrorRateExact ==
    \A s \in Range(sm.returned) :
        IF s.total_requests > 0
        THEN s.error_rate * s.total_requests = s.total_errors * Percent * Hundredths
        ELSE s.error_rate = 0

\* C16, amended: the error_rate of a summary is
\* 100 * total_errors / total_requests rounded to two decimal places (it is
\* within 0.005 of the quotient) when total_requests > 0, and 0 when
\* total_requests is 0.
C16_ErrorRateRounded ==
    \A s \in Range(sm.returned) :
        IF s.total_requests > 0
        THEN 2 * Abs(s.error_rate * s.total_requests
                        - s.total_errors * Percent * Hundredths) <= s.total_requests
        ELSE s.error_rate = 0

\* a summary of three requests, one of them an error: 33.33
C16_Witness ==
    \E s \in Range(sm.returned) :
        s.total_requests = 3 /\ s.total_errors = 1 /\ s.error_rate = 3333

\* the number of calls recorded whose status code is in a set
Recorded(codes) ==
    Cardinality({i \in DOMAIN sm.calls : sm.calls[i].status_code \in codes})

C30_PointInTime ==
    /\ [](sm.returned # <<>> =>
            ReadSummary(sm.returned[1], sm.refs[1], sm.collector) = sm.returned[1])
    /\ [][sm'.calls = sm.calls => sm'.collector = sm.collector]_vars

(***************************************************************************)
(* top_endpoints of an endpoints dict of more than ten buckets             *)
(***************************************************************************)

\* number of buckets of the dict
MaxEndpoints == 11

\* the request counts of the buckets
Counts == {1, 2, 3}

\* the dicts: the key of a bucket is its place in the insertion order
EndpointDicts ==
    UNION {[1 .. n -> Counts] : n \in 0 .. MaxEndpoints}

ItemsOf(counts) ==
    [i \in DOMAIN counts |-> <<i, [count |-> counts[i], errors |-> 0]>>]

TopRest == tp = [items |-> <<>>, top |-> <<>>, pc |-> "new"]

TopInit ==
    \E counts \in EndpointDicts :
        tp = [items |-> ItemsOf(counts), top |-> <<>>, pc |-> "new"]

OthersUnchangedT ==
    UNCHANGED <<metricsVars, rateVars, piiVars, errVars, fileVars, corrVars, logVars,
                chainVars, sm, sampVars, closeVars, healthVars>>

\* the top_endpoints entry of get_summary
TopEndpoints ==
    /\ tp.pc = "new"
    /\ tp' = [tp EXCEPT !.top = top_endpoints(tp.items), !.pc = "done"]
    /\ OthersUnchangedT

NextTop == TopEndpoints

\* C18: top_endpoints holds at most 10 buckets of the dict (all of them when
\* there are no more than 10), in descending order of count, buckets of
\* equal count in first-seen order; no omitted bucket has a higher count than
\* a listed one, nor the same count and an earlier first request.
C18_TopEndpoints ==
    tp.pc = "done" =>
        LET top == tp.top
            items == tp.items
            omitted == DOMAIN items \ {top[i][1] : i \in DOMAIN top}
        IN /\ Len(top) <= 10
           /\ Len(top) = (IF Len(items) < 10 THEN Len(items) ELSE 10)
           /\ \A i \in DOMAIN top :
                 top[i][1] \in DOMAIN items /\ top[i] = items[top[i][1]]
           /\ \A i, j \in DOMAIN top :
                 i < j =>
                    /\ top[i][1] # top[j][1]
                    /\ top[i][2].count >= top[j][2].count
                    /\ (top[i][2].count = top[j][2].count => top[i][1] < top[j][1])
           /\ \A o \in omitted, i \in DOMAIN top :
                 /\ items[o][2].count <= top[i][2].count
                 /\ (items[o][2].count = top[i][2].count => top[i][1] < o)

\* eleven buckets, the first seen with the lowest count: it is omitted, the
\* last seen is listed, and listed buckets tie
C18_Witness ==
    /\ tp.pc = "done"
    /\ Len(tp.items) = 11
    /\ Len(tp.top) = 10
    /\ \A i \in DOMAIN tp.top : tp.top[i][1] # 1
    /\ \E i \in DOMAIN tp.top : tp.top[i][1] = 11
    /\ \E i, j \in DOMAIN tp.top : i < j /\ tp.top[i][2].count = tp.top[j][2].count
    /\ \E i, j \in DOMAIN tp.top : tp.top[i][2].count > tp.top[j][2].count

(***************************************************************************)
(* SamplingFilter                                                          *)
(***************************************************************************)

\* number of records handed to filter()
MaxFiltered == 5

\* logging's level numbers
LevelNo ==
    [DEBUG |-> 10, INFO |-> 20, WARNING |-> 30, ERROR |-> 40, CRITICAL |-> 50]

LevelNames == DOMAIN LevelNo

\* logging.ERROR
LOGGING_ERROR == 40

\* a rate as the fraction num / den: 1.0, 0.6, 0.5, 0.4, 0.25 and 0.0
Rate(num, den) == [num |-> num, den |-> den]

Rates == {Rate(1, 1), Rate(3, 5), Rate(1, 2), Rate(2, 5), Rate(1, 4), Rate(0, 1)}

EmptyDict == [k \in {} |-> 0]

\* level_rates: no entry, or one for INFO
LevelRates == {EmptyDict} \cup {("INFO" :> r) : r \in Rates}

\* SamplingFilter.__init__
SamplingFilter(sample_rate, level_rates) ==
    [sample_rate |-> sample_rate,
     level_rates |-> level_rates,
     counters    |-> EmptyDict,
     seen        |-> [l \in LevelNames |-> 0],
     last        |-> [levelname |-> "", rate |-> Rate(1, 1), result |-> "none"]]

SampRest == sf = SamplingFilter(Rate(1, 1), EmptyDict)

SampInit ==
    \E sample_rate \in Rates, level_rates \in LevelRates :
        sf = SamplingFilter(sample_rate, level_rates)

\* self.level_rates.get(level_name, self.sample_rate)
RateOf(f, level_name) ==
    IF level_name \in DOMAIN f.level_rates
    THEN f.level_rates[level_name]
    ELSE f.sample_rate

\* int(1 / rate): the quotient cut off towards zero
IntOfInverse(rate) == rate.den \div rate.num

\* the counters after "if level_name not in self.counters: ... = 0" and
\* "self.counters[level_name] += 1"
Advanced(counters, level_name) ==
    LET c == IF level_name \in DOMAIN counters
             THEN counters
             ELSE (level_name :> 0) @@ counters
    IN [c EXCEPT ![level_name] = @ + 1]

\* SamplingFilter.filter: the filter after the call and what the call
\* returned ("True", "False") or raised
filter(f, level_name) ==
    LET rate == RateOf(f, level_name)
        counters == Advanced(f.counters, level_name)
        seen == [f.seen EXCEPT ![level_name] = @ + 1]
        Last(result) == [levelname |-> level_name, rate |-> rate, result |-> result]
    IN IF LevelNo[level_name] >= LOGGING_ERROR
       THEN [f EXCEPT !.seen = seen, !.last = Last("True")]
       ELSE IF rate.num = 0
       THEN [f EXCEPT !.seen = seen, !.counters = counters,
                      !.last = Last("ZeroDivisionError")]
       ELSE [f EXCEPT !.seen = seen, !.counters = counters,
                      !.last = Last(IF counters[level_name]
                                         % Max(1, IntOfInverse(rate)) = 0
                                    THEN "True" ELSE "False")]

OthersUnchangedSF ==
    UNCHANGED <<metricsVars, rateVars, piiVars, errVars, fileVars, corrVars, logVars,
                chainVars, summaryVars, closeVars, healthVars>>

\* a record handed to the filter
Filter ==
    /\ SumOver(sf.seen, LevelNames) < MaxFiltered
    /\ \E level_name \in LevelNames : sf' = filter(sf, level_name)
    /\ OthersUnchangedSF

NextSamp == Filter

\* C19: a record of severity ERROR or CRITICAL always passes and advances no
\* counter; the counter of a lower severity counts the records of that
\* severity only, and the N-th record of a severity with rate r > 0 passes
\* if and only if N mod max(1, round(1/r)) = 0.
C19_Sampling ==
    /\ \A l \in LevelNames :
          IF LevelNo[l] >= LOGGING_ERROR
          THEN l \notin DOMAIN sf.counters
          ELSE sf.seen[l] > 0 => (l \in DOMAIN sf.counters /\ sf.counters[l] = sf.seen[l])
    /\ sf.last.result # "none" =>
          IF LevelNo[sf.last.levelname] >= LOGGING_ERROR
          THEN sf.last.result = "True"
          ELSE sf.last.rate.num > 0 =>
                  /\ sf.last.result \in {"True", "False"}
                  /\ sf.last.result = "True" <=>
                        sf.seen[sf.last.levelname]
                            % Max(1, Round(sf.last.rate.den, sf.last.rate.num)) = 0

(***************************************************************************)
(* Monitoring: detailed_health_check and get_service_status                *)
(***************************************************************************)

\* check_component_health: the leading word of the string each check
\* stores (the text of an exception that follows it is left out)
ComponentStatuses ==
    [database   : {"healthy", "unhealthy"},
     filesystem : {"healthy", "unhealthy"},
     memory     : {"healthy", "warning", "unknown"}]

\* "> 10.0", in hundredths of a percent as error_rate is kept
ErrorRateThreshold == 1000

\* metrics.error_rate as get_service_metrics returns it: 0, 10.0, 10.01, 15.0
ErrorRates == {0, ErrorRateThreshold, ErrorRateThreshold + 1, 1500}

\* any(word in status for status in components.values())
AnyComponent(components, word) ==
    \E name \in DOMAIN components : components[name] = word

\* detailed_health_check: overall_status
detailed_health_check(components, error_rate) ==
    IF AnyComponent(components, "unhealthy") THEN "unhealthy"
    ELSE IF AnyComponent(components, "warning") THEN "degraded"
    ELSE "healthy"

\* get_service_status: status
get_service_status(components, error_rate) ==
    IF AnyComponent(components, "unhealthy") THEN "unhealthy"
    ELSE IF error_rate > ErrorRateThreshold THEN "degraded"
    ELSE IF AnyComponent(components, "warning") THEN "degraded"
    ELSE "healthy"

NoHealth == [components |-> [database |-> "healthy", filesystem |-> "healthy",
                             memory |-> "healthy"],
             error_rate |-> 0, detailed |-> "", status |-> ""]

HealthRest == hs = NoHealth

\* the state of the service when the endpoints are called
HealthInit ==
    \E components \in ComponentStatuses, error_rate \in ErrorRates :
        hs = [NoHealth EXCEPT !.components = components, !.error_rate = error_rate]

OthersUnchangedHS ==
    UNCHANGED <<metricsVars, rateVars, piiVars, errVars, fileVars, corrVars, logVars,
                chainVars, summaryVars, sampVars, closeVars>>

\* GET /health/detailed
DetailedHealthCheck ==
    /\ hs.detailed = ""
    /\ hs' = [hs EXCEPT !.detailed = detailed_health_check(hs.components, hs.error_rate)]
    /\ OthersUnchangedHS

\* GET /status
GetServiceStatus ==
    /\ hs.status = ""
    /\ hs' = [hs EXCEPT !.status = get_service_status(hs.components, hs.error_rate)]
    /\ OthersUnchangedHS

NextHealth == DetailedHealthCheck \/ GetServiceStatus

\* the overall status of the service: "unhealthy" if any component reports
\* unhealthy, otherwise "degraded" if any reports a warning or the error
\* rate is above 10%, otherwise "healthy"
OverallStatus ==
    IF \E name \in DOMAIN hs.components : hs.components[name] = "unhealthy"
    THEN "unhealthy"
    ELSE IF \/ \E name \in DOMAIN hs.components : hs.components[name] = "warning"
            \/ hs.error_rate > 1000
    THEN "degraded"
    ELSE "healthy"

\* C23: the status of the status summary and the status of the detailed
\* health check are both the overall status of the service.
C23_OverallStatus ==
    /\ hs.status # "" => hs.status = OverallStatus
    /\ hs.detailed # "" => hs.detailed = OverallStatus

Init ==
    /\ MetricsInit
    /\ RateInit
    /\ PiiInit
    /\ ErrInit
    /\ FileInit
    /\ CorrInit
    /\ LogInit
    /\ ChainInit
    /\ SummaryInit
    /\ TopInit
    /\ SampInit
    /\ CloseInit
    /\ HealthInit

Next ==
    \/ NextMetrics
    \/ NextRate
    \/ NextPii
    \/ NextErr
    \/ NextFile
    \/ NextCorr
    \/ NextLog
    \/ NextChain
    \/ NextSummary
    \/ NextTop
    \/ NextSamp
    \/ NextClose
    \/ NextHealth

\* all components, interleaved
Spec == Init /\ [][Next]_vars

\* one component at a time, the others at rest
InitMetrics ==
    MetricsInit /\ RateRest /\ PiiRest /\ ErrInit /\ FileRest /\ CorrInit /\ LogInit /\ ChainInit
        /\ SummaryInit /\ TopRest /\ SampRest /\ CloseInit /\ HealthRest

SpecMetrics == InitMetrics /\ [][NextMetrics]_vars

InitRate ==
    MetricsInit /\ RateInit /\ PiiRest /\ ErrInit /\ FileRest /\ CorrInit /\ LogInit /\ ChainInit
        /\ SummaryInit /\ TopRest /\ SampRest /\ CloseInit /\ HealthRest

SpecRate == InitRate /\ [][NextRate]_vars

InitPii ==
    MetricsInit /\ RateRest /\ PiiInit /\ ErrInit /\ FileRest /\ CorrInit /\ LogInit /\ ChainInit
        /\ SummaryInit /\ TopRest /\ SampRest /\ CloseInit /\ HealthRest

SpecPii == InitPii /\ [][NextPii]_vars

InitErr ==
    MetricsInit /\ RateRest /\ PiiRest /\ ErrInit /\ FileRest /\ CorrInit /\ LogInit /\ ChainInit
        /\ SummaryInit /\ TopRest /\ SampRest /\ CloseInit /\ HealthRest

SpecErr == InitErr /\ [][NextErr]_vars

InitFile ==
    MetricsInit /\ RateRest /\ PiiRest /\ ErrInit /\ FileInit /\ CorrInit /\ LogInit /\ ChainInit
        /\ SummaryInit /\ TopRest /\ SampRest /\ CloseInit /\ HealthRest

SpecFile == InitFile /\ [][NextFile]_vars

InitClose ==
    MetricsInit /\ RateRest /\ PiiRest /\ ErrInit /\ FileInit /\ CorrInit /\ LogInit /\ ChainInit
        /\ SummaryInit /\ TopRest /\ SampRest /\ CloseInit /\ HealthRest

\* the file handler with its worker thread and close()
SpecClose == InitClose /\ [][NextClose]_vars

\* the file handler on a file system whose operations may fail
SpecFileRaising == InitFile /\ [][NextFileRaising]_vars

InitCorr ==
    MetricsInit /\ RateRest /\ PiiRest /\ ErrInit /\ FileRest /\ CorrInit /\ LogInit /\ ChainInit
        /\ SummaryInit /\ TopRest /\ SampRest /\ CloseInit /\ HealthRest

SpecCorr == InitCorr /\ [][NextCorr]_vars

InitLog ==
    MetricsInit /\ RateRest /\ PiiRest /\ ErrInit /\ FileRest /\ CorrInit /\ LogInit /\ ChainInit
        /\ SummaryInit /\ TopRest /\ SampRest /\ CloseInit /\ HealthRest

SpecLog == InitLog /\ [][NextLog]_vars

InitChain ==
    MetricsInit /\ RateRest /\ PiiRest /\ ErrInit /\ FileRest /\ CorrInit /\ LogInit /\ ChainInit
        /\ SummaryInit /\ TopRest /\ SampRest /\ CloseInit /\ HealthRest

SpecChain == InitChain /\ [][NextChain]_vars

InitSummary ==
    MetricsInit /\ RateRest /\ PiiRest /\ ErrInit /\ FileRest /\ CorrInit /\ LogInit /\ ChainInit
        /\ SummaryInit /\ TopRest /\ SampRest /\ CloseInit /\ HealthRest

SpecSummary == InitSummary /\ [][NextSummary]_vars

InitTop ==
    MetricsInit /\ RateRest /\ PiiRest /\ ErrInit /\ FileRest /\ CorrInit /\ LogInit /\ ChainInit
        /\ SummaryInit /\ TopInit /\ SampRest /\ CloseInit /\ HealthRest

SpecTop == InitTop /\ [][NextTop]_vars

InitSamp ==
    MetricsInit /\ RateRest /\ PiiRest /\ ErrInit /\ FileRest /\ CorrInit /\ LogInit /\ ChainInit
        /\ SummaryInit /\ TopRest /\ SampInit /\ CloseInit /\ HealthRest

SpecSamp == InitSamp /\ [][NextSamp]_vars

InitHealth ==
    MetricsInit /\ RateRest /\ PiiRest /\ ErrInit /\ FileRest /\ CorrInit /\ LogInit /\ ChainInit
        /\ SummaryInit /\ TopRest /\ SampRest /\ CloseInit /\ HealthInit

SpecHealth == InitHealth /\ [][NextHealth]_vars

====
